---- MODULE Spec2Model ----
(***************************************************************************)
(* Snap2Motion: the client session (Home component of                     *)
(* src/app/api/predict/route.ts) with its three backends, and the two      *)
(* server routes it talks to.                                              *)
(*                                                                         *)
(* Strings are TLA+ strings; TLC evaluates Len, SubSeq and \o on them, so  *)
(* toLowerCase, includes and startsWith are computed character by          *)
(* character.  The two non-ASCII characters of the source's texts are      *)
(* written in ASCII: the ellipsis as "..." and the check mark as "(ok)".   *)
(***************************************************************************)
EXTENDS Integers, Sequences, FiniteSets, TLC

----------------------------------------------------------------------------
(* Bounds of the model *)

\* polling loops (runs of the polling effect) a behaviour may start
MaxLoops == 2
\* remote jobs a behaviour may create
MaxJobs == 2
\* properties a schema given to resolveInputKeys may declare
MaxFields == 2

\* the endpoints a Space API description has at most
MaxEndpoints == 2

----------------------------------------------------------------------------
(* JavaScript values *)

\* null and undefined of a string-typed state cell
Null == "<null>"

\* !x of a string-or-null value
Falsy(x) == x = Null \/ x = ""

Undef == [t |-> "undefined"]
JNull == [t |-> "null"]
Str(s) == [t |-> "str", s |-> s]
Arr(items) == [t |-> "arr", items |-> items]
Obj(f) == [t |-> "obj", f |-> f]
\* a callable returning ret
Fn(ret) == [t |-> "fn", ret |-> ret]
Num(n) == [t |-> "num", n |-> n]
Bool(b) == [t |-> "bool", b |-> b]

\* v?.name
Field(v, name) ==
  IF v.t = "obj" /\ name \in DOMAIN v.f THEN v.f[name] ELSE Undef

\* !v
JsFalsy(v) ==
  \/ v.t \in {"undefined", "null"}
  \/ v.t = "str" /\ v.s = ""
  \/ v.t = "num" /\ v.n = 0
  \/ v.t = "bool" /\ ~v.b

\* String(v)
JsString(v) ==
  IF v.t = "str" THEN v.s
  ELSE IF v.t = "undefined" THEN "undefined"
  ELSE IF v.t = "null" THEN "null"
  ELSE IF v.t = "num" THEN ToString(v.n)
  ELSE IF v.t = "bool" THEN (IF v.b THEN "true" ELSE "false")
  ELSE "[object Object]"

UpperChars == "ABCDEFGHIJKLMNOPQRSTUVWXYZ"
LowerChars == "abcdefghijklmnopqrstuvwxyz"

\* the lower-case letter of every upper-case letter
LowerMap ==
  [c \in {SubSeq(UpperChars, i, i) : i \in 1..Len(UpperChars)} |->
     LET i == CHOOSE j \in 1..Len(UpperChars) : SubSeq(UpperChars, j, j) = c
     IN SubSeq(LowerChars, i, i)]

LowerChar(c) == IF c \in DOMAIN LowerMap THEN LowerMap[c] ELSE c

RECURSIVE toLowerCase(_)
toLowerCase(s) ==
  IF Len(s) = 0 THEN ""
  ELSE LowerChar(SubSeq(s, 1, 1)) \o toLowerCase(SubSeq(s, 2, Len(s)))

\* s.includes(k)
includes(s, k) ==
  \E i \in 1..(Len(s) - Len(k) + 1) : SubSeq(s, i, i + Len(k) - 1) = k

\* s.startsWith(p)
startsWith(s, p) == Len(s) >= Len(p) /\ SubSeq(s, 1, Len(p)) = p

----------------------------------------------------------------------------
(* Overload classification *)

looksLikeHfGpuAbort_NoQuota(msg) ==
  LET m == toLowerCase(msg)
  IN \/ includes(m, "gpu task aborted")
     \/ includes(m, "zerogpu worker error")
     \/ includes(m, "insufficient gpu")
     \/ includes(m, "insufficient gpu time")
     \/ includes(m, "requested")
     \/ includes(m, "timed out")
     \/ includes(m, "overloaded")

looksLikeHfGpuAbort(msg) ==
  LET m == toLowerCase(msg)
  IN \/ includes(m, "gpu task aborted")
     \/ includes(m, "zerogpu worker error")
     \/ includes(m, "insufficient gpu")
     \/ includes(m, "insufficient gpu time")
     \/ includes(m, "quota")
     \/ includes(m, "requested")
     \/ includes(m, "timed out")
     \/ includes(m, "overloaded")

----------------------------------------------------------------------------
(* Output extraction *)

IsHttp(v) == v.t = "str" /\ startsWith(v.s, "http")

RECURSIVE tryOne(_)
tryOne(v) ==
  IF JsFalsy(v) THEN Null
  ELSE IF v.t = "str" THEN (IF startsWith(v.s, "http") THEN v.s ELSE Null)
  ELSE IF IsHttp(Field(v, "url")) THEN Field(v, "url").s
  ELSE IF IsHttp(Field(v, "path")) THEN Field(v, "path").s
  ELSE IF ~JsFalsy(Field(v, "video")) THEN tryOne(Field(v, "video"))
  ELSE IF IsHttp(Field(v, "data")) THEN Field(v, "data").s
  ELSE Null

RECURSIVE FirstUrl(_)
FirstUrl(items) ==
  IF Len(items) = 0 THEN Null
  ELSE LET u == tryOne(Head(items))
       IN IF ~Falsy(u) THEN u ELSE FirstUrl(Tail(items))

extractVideoUrlFromGradio(result) ==
  LET d == Field(result, "data")
      data == IF d.t \in {"undefined", "null"} THEN result ELSE d
      items == IF data.t = "arr" THEN data.items ELSE <<data>>
  IN FirstUrl(items)

pickVideoUrl_NoPlainString(output) ==
  IF JsFalsy(output) THEN Null
  ELSE IF output.t = "arr" THEN
    LET first == IF Len(output.items) = 0 THEN Undef ELSE output.items[1]
    IN IF JsFalsy(first) THEN Null
       ELSE IF first.t = "str" THEN first.s
       ELSE IF Field(first, "url").t = "fn" THEN JsString(Field(first, "url").ret)
       ELSE IF Field(first, "url").t = "str" THEN Field(first, "url").s
       ELSE Null
  ELSE IF Field(output, "url").t = "fn" THEN JsString(Field(output, "url").ret)
  ELSE IF Field(output, "url").t = "str" THEN Field(output, "url").s
  ELSE Null

pickVideoUrl_LastElement(output) ==
  IF JsFalsy(output) THEN Null
  ELSE IF output.t = "str" THEN output.s
  ELSE IF output.t = "arr" THEN
    LET first == IF Len(output.items) = 0 THEN Undef ELSE output.items[Len(output.items)]
    IN IF JsFalsy(first) THEN Null
       ELSE IF first.t = "str" THEN first.s
       ELSE IF Field(first, "url").t = "fn" THEN JsString(Field(first, "url").ret)
       ELSE IF Field(first, "url").t = "str" THEN Field(first, "url").s
       ELSE Null
  ELSE IF Field(output, "url").t = "fn" THEN JsString(Field(output, "url").ret)
  ELSE IF Field(output, "url").t = "str" THEN Field(output, "url").s
  ELSE Null

pickVideoUrl(output) ==
  IF JsFalsy(output) THEN Null
  ELSE IF output.t = "str" THEN output.s
  ELSE IF output.t = "arr" THEN
    LET first == IF Len(output.items) = 0 THEN Undef ELSE output.items[1]
    IN IF JsFalsy(first) THEN Null
       ELSE IF first.t = "str" THEN first.s
       ELSE IF Field(first, "url").t = "fn" THEN JsString(Field(first, "url").ret)
       ELSE IF Field(first, "url").t = "str" THEN Field(first, "url").s
       ELSE Null
  ELSE IF Field(output, "url").t = "fn" THEN JsString(Field(output, "url").ret)
  ELSE IF Field(output, "url").t = "str" THEN Field(output, "url").s
  ELSE Null

----------------------------------------------------------------------------
(* Program constants *)

HF_SPACES ==
  << "multimodalart/stable-video-diffusion",
     "ginigen/framepack-i2v",
     "zai-org/CogVideoX-5B-Space",
     "zerogpu-aoti/wan2-2-fp8da-aoti-faster" >>

\* process.env.NEXT_PUBLIC_HF_SPACE_ID ?? "multimodalart/stable-video-diffusion":
\* unset, set to a Space outside the list, set to the empty string
InitialSpaceIds == {HF_SPACES[1], "acme/custom-i2v", ""}

Providers == {"hf", "local", "replicate"}

\* n returned as it is
clamp_Unbounded(n, lo, hi) == n

clamp(n, lo, hi) == IF n < lo THEN lo ELSE IF n > hi THEN hi ELSE n

Min(a, b) == IF a < b THEN a ELSE b

\* the profiles with the last one at the greatest duration
attemptProfiles_LastLongest(durationSafe, resize) ==
  << [maxSide |-> IF resize THEN 768 ELSE 10000, duration |-> durationSafe,         stepsMul |-> 100],
     [maxSide |-> IF resize THEN 512 ELSE 10000, duration |-> Min(durationSafe, 4), stepsMul |-> 85],
     [maxSide |-> IF resize THEN 384 ELSE 10000, duration |-> 6,                    stepsMul |-> 75] >>

\* stepsMul is kept in hundredths
attemptProfiles(durationSafe, resize) ==
  << [maxSide |-> IF resize THEN 768 ELSE 10000, duration |-> durationSafe,         stepsMul |-> 100],
     [maxSide |-> IF resize THEN 512 ELSE 10000, duration |-> Min(durationSafe, 4), stepsMul |-> 85],
     [maxSide |-> IF resize THEN 384 ELSE 10000, duration |-> 2,                    stepsMul |-> 75] >>

RECURSIVE Dedupe(_, _)
Dedupe(xs, acc) ==
  IF Len(xs) = 0 THEN acc
  ELSE IF \E i \in 1..Len(acc) : acc[i] = Head(xs)
       THEN Dedupe(Tail(xs), acc)
       ELSE Dedupe(Tail(xs), Append(acc, Head(xs)))

\* Array.from(new Set(xs.filter(Boolean)))
uniq_NoDedupe(xs) == SelectSeq(xs, LAMBDA x : x # "")

uniq(xs) == Dedupe(SelectSeq(xs, LAMBDA x : x # ""), <<>>)

ExhaustedPrefix ==
  "Hugging Face ZeroGPU is busy or your GPU time was cut short (\"GPU task aborted\").\n\nTry: (1) duration 2-4s, (2) Motion=Subtle, (3) keep the default \"Stable Video Diffusion\" Space, or (4) switch Provider -> \"Local Free (always works)\".\n\nDetails: "

\* the message of a result that came too late
NoUrlMessage_TimedOut == "Space returned, but the request timed out before a video URL was found."

NoUrlMessage == "Space returned, but no video URL was found in the output."

\* new Error(m)
ErrorOf(m) == Obj([message |-> Str(m)])

\* a ?? b
Coalesce(a, b) == IF a.t \in {"undefined", "null"} THEN b ELSE a

\* String(e?.message ?? e)
MsgOf(e) == JsString(Coalesce(Field(e, "message"), e))

\* e?.message ?? fallback, as a state cell
MessageOr(e, fallback) == JsString(Coalesce(Field(e, "message"), Str(fallback)))

----------------------------------------------------------------------------
(* lib/schema: resolveInputKeys *)

\* thrown by the engine when a property of undefined or null is read, or
\* when undefined or null is converted to an object
TypeError == [t |-> "thrown", name |-> "TypeError"]

\* an object literal with its properties in declaration order
ObjK(keys, f) == [t |-> "obj", f |-> f, keys |-> keys]

Digits == "0123456789"

IsDigit(c) == \E i \in 1..Len(Digits) : SubSeq(Digits, i, i) = c

DigitVal(c) == (CHOOSE i \in 1..Len(Digits) : SubSeq(Digits, i, i) = c) - 1

\* the property name is an array index: a canonical non-negative integer
IsIndexKey(k) ==
  /\ Len(k) > 0
  /\ \A i \in 1..Len(k) : IsDigit(SubSeq(k, i, i))
  /\ Len(k) > 1 => SubSeq(k, 1, 1) # "0"

RECURSIVE IndexVal(_)
IndexVal(k) ==
  IF Len(k) = 0 THEN 0
  ELSE 10 * IndexVal(SubSeq(k, 1, Len(k) - 1)) + DigitVal(SubSeq(k, Len(k), Len(k)))

RECURSIVE SortIndexKeys(_)
SortIndexKeys(ks) ==
  IF ks = {} THEN <<>>
  ELSE LET least == CHOOSE k \in ks : \A o \in ks : IndexVal(k) <= IndexVal(o)
       IN <<least>> \o SortIndexKeys(ks \ {least})

\* Object.keys(o) throws
ToObjectThrows(o) == o.t \in {"undefined", "null"}

\* Object.keys(o): index keys in ascending order, then the others as declared
ObjectKeys(o) ==
  IF o.t # "obj" THEN <<>>
  ELSE IF "keys" \notin DOMAIN o THEN <<>>
  ELSE SortIndexKeys({o.keys[i] : i \in {j \in 1..Len(o.keys) : IsIndexKey(o.keys[j])}})
         \o SelectSeq(o.keys, LAMBDA k : ~IsIndexKey(k))

\* String(x ?? "").toLowerCase()
lc(x) == toLowerCase(JsString(Coalesce(x, Str(""))))

\* openapi?.components?.schemas?.Input ?? null
inputSchemaOf(openapi) ==
  Coalesce(Field(Field(Field(openapi, "components"), "schemas"), "Input"), JNull)

\* inputSchema?.properties ?? {}
propsOf_NoDefault(inputSchema) == Field(inputSchema, "properties")

propsOf(inputSchema) == Coalesce(Field(inputSchema, "properties"), ObjK(<<>>, <<>>))

\* inputSchema?.required ?? []
requiredOf(inputSchema) == Coalesce(Field(inputSchema, "required"), Arr(<<>>)).items

\* findKey(pred), accepted being the keys that pred accepts: the first of
\* them in the order of keys, or undefined
findKey(keys, accepted) ==
  LET hits == {i \in 1..Len(keys) : keys[i] \in accepted}
  IN IF hits = {} THEN Undef
     ELSE Str(keys[CHOOSE i \in hits : \A j \in hits : i <= j])

\* the keys of props
keySet(keys) == {keys[i] : i \in 1..Len(keys)}

promptKeyOf(keys, props) ==
  Coalesce(findKey(keys, {k \in keySet(keys) :
                            \/ includes(lc(Str(k)), "prompt")
                            \/ includes(lc(Field(Field(props, k), "title")), "prompt")}),
           Str("prompt"))

looksLikeImage(k, p) ==
  \/ includes(lc(Str(k)), "image")
  \/ includes(lc(Field(p, "title")), "image")
  \/ includes(lc(Field(p, "description")), "image")

imageKeyOf(keys, props, required) ==
  Coalesce(findKey(keys, {k \in keySet(keys) :
                            /\ looksLikeImage(k, Field(props, k))
                            /\ \/ lc(Field(Field(props, k), "type")) = "string"
                               \/ lc(Field(Field(props, k), "format")) = "uri"}),
           findKey(keys, {k \in keySet(keys) :
                            /\ \E i \in 1..Len(required) : required[i] = Str(k)
                            /\ lc(Field(Field(props, k), "format")) = "uri"}))

durationKeyOf(keys, props) ==
  Coalesce(findKey(keys, {k \in keySet(keys) :
                            \/ includes(lc(Str(k)), "duration")
                            \/ includes(lc(Field(Field(props, k), "title")), "duration")
                            \/ includes(lc(Str(k)), "seconds")}),
           findKey(keys, {k \in keySet(keys) :
                            \/ includes(lc(Str(k)), "video_length")
                            \/ includes(lc(Str(k)), "length")}))

seedKeyOf(keys, props) ==
  findKey(keys, {k \in keySet(keys) :
                   lc(Str(k)) = "seed" \/ lc(Field(Field(props, k), "title")) = "seed"})

\* candidates.find(v => lc(v).includes("image") || lc(v).includes("i2v"))
i2vOf(p) ==
  LET enumVals == Coalesce(Field(p, "enum"), Arr(<<>>)).items
      candidates == [i \in 1..Len(enumVals) |-> JsString(enumVals[i])]
      hits == {i \in 1..Len(candidates) :
                 \/ includes(toLowerCase(candidates[i]), "image")
                 \/ includes(toLowerCase(candidates[i]), "i2v")}
  IN IF hits = {} THEN Undef
     ELSE Str(candidates[CHOOSE i \in hits : \A j \in hits : i <= j])

\* the loop over required: the entries of extraDefaults
extraDefaultsOf_KeepResolved(props, required, resolvedKeys) ==
  LET ks == {required[i].s : i \in {j \in 1..Len(required) :
                                      ~JsFalsy(i2vOf(Field(props, required[j].s)))}}
  IN [k \in ks |-> i2vOf(Field(props, k)).s]

extraDefaultsOf(props, required, resolvedKeys) ==
  LET ks == {required[i].s : i \in {j \in 1..Len(required) :
                                      /\ required[j] \notin resolvedKeys
                                      /\ ~JsFalsy(i2vOf(Field(props, required[j].s)))}}
  IN [k \in ks |-> i2vOf(Field(props, k)).s]

resolveInputKeys(openapi) ==
  LET inputSchema == inputSchemaOf(openapi)
      props == propsOf(inputSchema)
      required == requiredOf(inputSchema)
      keys == ObjectKeys(props)
  IN IF ToObjectThrows(props) THEN TypeError
     ELSE LET promptKey == promptKeyOf(keys, props)
              imageKey == imageKeyOf(keys, props, required)
              durationKey == durationKeyOf(keys, props)
              seedKey == seedKeyOf(keys, props)
          IN [ promptKey |-> promptKey,
               imageKey |-> imageKey,
               durationKey |-> durationKey,
               seedKey |-> seedKey,
               extraDefaults |-> extraDefaultsOf(props, required,
                                   {promptKey, imageKey, durationKey, seedKey}) ]

-----------------------------------------------------------------------------
(* lib/prompt: buildDirectorPrompt *)

cameraMoveToBracket(move) ==
  CASE move = "static" -> Str("[Static shot]")
    [] move = "push_in" -> Str("[Push in]")
    [] move = "pull_out" -> Str("[Pull out]")
    [] move = "pan_left" -> Str("[Pan left]")
    [] move = "pan_right" -> Str("[Pan right]")
    [] move = "tilt_up" -> Str("[Tilt up]")
    [] move = "tilt_down" -> Str("[Tilt down]")
    [] move = "truck_left" -> Str("[Truck left]")
    [] move = "truck_right" -> Str("[Truck right]")
    [] move = "pedestal_up" -> Str("[Pedestal up]")
    [] move = "pedestal_down" -> Str("[Pedestal down]")
    [] move = "zoom_in" -> Str("[Zoom in]")
    [] move = "zoom_out" -> Str("[Zoom out]")
    [] move = "tracking" -> Str("[Tracking shot]")
    [] move = "shake" -> Str("[Shake]")
    [] OTHER -> Undef

STYLE_HINTS ==
  [cinematic |-> "cinematic lighting, film look, shallow depth of field",
   realistic |-> "photorealistic, natural lighting, realistic motion",
   anime |-> "anime style, vibrant colors, clean line art",
   dreamy |-> "soft dreamy atmosphere, bokeh, gentle glow",
   retro |-> "retro 90s vibe, film grain, muted palette"]

\* STYLE_HINTS[style]
styleHint(style) == IF style \in DOMAIN STYLE_HINTS THEN Str(STYLE_HINTS[style]) ELSE Undef

intensityHint(motionIntensity) ==
  IF motionIntensity = "subtle" THEN "subtle motion"
  ELSE IF motionIntensity = "medium" THEN "smooth motion"
  ELSE "dynamic motion"

\* Math.max(2, Math.min(6, Math.round(durationSec))) of a whole number
shotSeconds(n) == IF n < 2 THEN 2 ELSE IF n > 6 THEN 6 ELSE n

buildDirectorPrompt(args) ==
  JsString(cameraMoveToBracket(args.camera)) \o " " \o args.userPrompt \o ". "
    \o JsString(styleHint(args.style)) \o ". "
    \o intensityHint(args.motionIntensity) \o ". "
    \o ToString(shotSeconds(args.durationSec)) \o "-second shot."

-----------------------------------------------------------------------------
(* POST /api/predict *)

\* a value that is not a number
NaN == [t |-> "nan"]

\* the uploaded file of the form, and the bytes read from it
File == [t |-> "file"]
imageBuffer == [t |-> "buffer"]

\* the digits s begins with
RECURSIVE DigitPrefix(_)
DigitPrefix(s) ==
  IF Len(s) = 0 \/ ~IsDigit(SubSeq(s, 1, 1)) THEN ""
  ELSE SubSeq(s, 1, 1) \o DigitPrefix(SubSeq(s, 2, Len(s)))

\* Number(s) of a text of digits or letters
NumberOf(s) ==
  IF DigitPrefix(s) = s THEN Num(IndexVal(s)) ELSE NaN

\* Number.parseInt(s, 10) of a text of digits or letters
parseInt(s) ==
  IF DigitPrefix(s) = "" THEN NaN ELSE Num(IndexVal(DigitPrefix(s)))

toIntOrUndefined(x) ==
  IF JsFalsy(x) THEN Undef
  ELSE IF parseInt(x.s) = NaN THEN Undef ELSE parseInt(x.s)

\* the raw object read from the form
rawOf(form) ==
  [prompt |-> JsString(Coalesce(form.prompt, Str(""))),
   camera |-> JsString(Coalesce(form.camera, Str("static"))),
   durationSec |-> JsString(Coalesce(form.durationSec, Str("6"))),
   style |-> JsString(Coalesce(form.style, Str("cinematic"))),
   motionIntensity |-> JsString(Coalesce(form.motionIntensity, Str("medium"))),
   seed |-> IF JsFalsy(form.seed) THEN Undef ELSE Str(JsString(form.seed))]

\* the fields of raw that FormSchema refuses
FormSchemaIssues(raw) ==
  {f \in {"prompt"} : Len(raw.prompt) < 3}
    \cup {f \in {"camera"} : Len(raw.camera) < 1}
    \cup {f \in {"durationSec"} : \/ NumberOf(raw.durationSec) = NaN
                                  \/ NumberOf(raw.durationSec).n < 2
                                  \/ NumberOf(raw.durationSec).n > 6}
    \cup {f \in {"style"} : Len(raw.style) < 1}
    \cup {f \in {"motionIntensity"} : raw.motionIntensity \notin {"subtle", "medium", "strong"}}

\* FormSchema.safeParse(raw).data
FormSchemaData(raw) == [raw EXCEPT !.durationSec = NumberOf(raw.durationSec).n]

\* NextResponse.json(body, { status })
Response(status, body) == [status |-> status, body |-> body]

\* what POST comes to: its response and the predictions.create calls it made
Outcome(response, created) == [response |-> response, created |-> created]

\* input[k] = v
SetKey(input, k, v) == [x \in DOMAIN input \cup {k} |-> IF x = k THEN v ELSE input[x]]

\* the mapping used: from the schema, or the fallback when there is none
resolvedOf(openapi) ==
  IF ~JsFalsy(openapi) THEN resolveInputKeys(openapi)
  ELSE [promptKey |-> Str("prompt"), imageKey |-> Str("image"), seedKey |-> Str("seed"),
        durationKey |-> Undef, extraDefaults |-> <<>>]

\* the input before the image is added
inputOf(resolved, directorPrompt, data, seed) ==
  LET in0 == [k \in DOMAIN resolved.extraDefaults |-> Str(resolved.extraDefaults[k])]
      in1 == SetKey(in0, resolved.promptKey.s, Str(directorPrompt))
      in2 == IF ~JsFalsy(resolved.durationKey)
             THEN SetKey(in1, resolved.durationKey.s, Num(data.durationSec)) ELSE in1
  IN IF ~JsFalsy(resolved.seedKey) /\ seed.t = "num"
     THEN SetKey(in2, resolved.seedKey.s, seed) ELSE in2

\* the end of POST: the image is added and the prediction is created
submit_TextOnly(env, version, openapi, resolved, input) ==
  LET withImage == IF ~JsFalsy(resolved.imageKey)
                   THEN SetKey(input, resolved.imageKey.s, imageBuffer) ELSE input
      call == [version |-> version, input |-> withImage]
  IN IF env.create.t = "thrown"
     THEN Outcome(Response(500, Obj([error |-> Str(MessageOr(env.create.e, "Unknown error"))])),
                  <<call>>)
     ELSE Outcome(Response(200, Obj([id |-> Field(env.create, "id"),
                                     status |-> Field(env.create, "status"),
                                     created_at |-> Field(env.create, "created_at"),
                                     model |-> Str(env.owner \o "/" \o env.name),
                                     used_schema |-> Bool(~JsFalsy(openapi))])),
                  <<call>>)

submit(env, version, openapi, resolved, input) ==
  IF JsFalsy(resolved.imageKey)
  THEN Outcome(Response(400, Obj([error |-> Str("This model schema did not expose an image input. Pick a model that supports image-to-video.")])),
               <<>>)
  ELSE LET call == [version |-> version,
                    input |-> SetKey(input, resolved.imageKey.s, imageBuffer)]
       IN IF env.create.t = "thrown"
          THEN Outcome(Response(500, Obj([error |-> Str(MessageOr(env.create.e, "Unknown error"))])),
                       <<call>>)
          ELSE Outcome(Response(200, Obj([id |-> Field(env.create, "id"),
                                          status |-> Field(env.create, "status"),
                                          created_at |-> Field(env.create, "created_at"),
                                          model |-> Str(env.owner \o "/" \o env.name),
                                          used_schema |-> Bool(~JsFalsy(openapi))])),
                       <<call>>)

\* POST(req) with the form of the request, in an environment env: the token,
\* the configured version, the answer of models.get, the answer of
\* predictions.create
POST(form, env) ==
  IF form.image # File
  THEN Outcome(Response(400, Obj([error |-> Str("Missing image file.")])), <<>>)
  ELSE IF FormSchemaIssues(rawOf(form)) # {}
  THEN Outcome(Response(400, Obj([error |-> Obj([fieldErrors |-> FormSchemaIssues(rawOf(form))])])),
               <<>>)
  ELSE IF JsFalsy(env.token)
  THEN Outcome(Response(400, Obj([error |-> Str("Missing REPLICATE_API_TOKEN. Put it in your .env.local.")])),
               <<>>)
  ELSE IF env.model.t = "thrown"
  THEN Outcome(Response(500, Obj([error |-> Str(MessageOr(env.model.e, "Unknown error"))])), <<>>)
  ELSE LET data == FormSchemaData(rawOf(form))
           version == Coalesce(env.version, Field(Field(env.model, "latest_version"), "id"))
           openapi == Coalesce(Field(Field(env.model, "latest_version"), "openapi_schema"), JNull)
       IN IF JsFalsy(version)
          THEN Outcome(Response(500, Obj([error |-> Str("Replicate model version not found (latest_version missing). "
                                                          \o "Set REPLICATE_MODEL_VERSION in env or choose a model that exposes latest_version.")])),
                       <<>>)
          ELSE submit(env, version, openapi, resolvedOf(openapi),
                      inputOf(resolvedOf(openapi),
                              buildDirectorPrompt([userPrompt |-> data.prompt,
                                                   camera |-> data.camera,
                                                   durationSec |-> data.durationSec,
                                                   style |-> data.style,
                                                   motionIntensity |-> data.motionIntensity]),
                              data, toIntOrUndefined(data.seed)))

-----------------------------------------------------------------------------
(* startHuggingFace: pickBestEndpoint *)

\* info?.parameters ?? []
paramsOf(info) == Coalesce(Field(info, "parameters"), Arr(<<>>)).items

\* params.map((p) => String(p?.parameter_name ?? "").toLowerCase())
lowerNamesOf(params) ==
  [i \in 1..Len(params) |-> lc(Field(params[i], "parameter_name"))]

\* params.map((p) => String(p?.component ?? "").toLowerCase())
compsOf(params) ==
  [i \in 1..Len(params) |-> lc(Field(params[i], "component"))]

\* the score pushed by scoreEndpoint(endpoint, info, bonusNamed)
scoreEndpoint(info, bonusNamed) ==
  LET lowerNames == lowerNamesOf(paramsOf(info))
      comps == compsOf(paramsOf(info))
      hasImage == \/ \E i \in 1..Len(lowerNames) : includes(lowerNames[i], "image")
                  \/ \E i \in 1..Len(comps) : includes(comps[i], "image")
      hasPrompt == \/ \E i \in 1..Len(lowerNames) :
                        \/ lowerNames[i] = "prompt"
                        \/ (includes(lowerNames[i], "prompt") /\ ~includes(lowerNames[i], "negative"))
                   \/ \E i \in 1..Len(comps) : includes(comps[i], "textbox")
  IN (IF hasImage THEN 5 ELSE 0)
       + (IF hasPrompt THEN 5 ELSE 0)
       + (IF \E i \in 1..Len(lowerNames) : includes(lowerNames[i], "duration") THEN 2 ELSE 0)
       + (IF \E i \in 1..Len(lowerNames) : includes(lowerNames[i], "steps") THEN 1 ELSE 0)
       + bonusNamed

\* the array scored after the two loops: named endpoints, then the unnamed
\* ones whose key is a number
scoredOf(api) ==
  LET named == Coalesce(Field(api, "named_endpoints"), ObjK(<<>>, <<>>))
      unnamed == Coalesce(Field(api, "unnamed_endpoints"), ObjK(<<>>, <<>>))
      idxs == SelectSeq(ObjectKeys(unnamed), LAMBDA idx : NumberOf(idx) # NaN)
  IN [i \in 1..Len(ObjectKeys(named)) |->
        [endpoint |-> Str(ObjectKeys(named)[i]),
         score |-> scoreEndpoint(named.f[ObjectKeys(named)[i]], 1)]]
     \o [i \in 1..Len(idxs) |->
        [endpoint |-> NumberOf(idxs[i]),
         score |-> scoreEndpoint(unnamed.f[idxs[i]], 0)]]

\* scored left as pushed
sortByScore_Unsorted(scored) == scored

\* scored.sort((a, b) => b.score - a.score): descending, equal scores keep their order
RECURSIVE sortByScore(_)
sortByScore(scored) ==
  IF scored = <<>> THEN <<>>
  ELSE LET best == CHOOSE i \in 1..Len(scored) :
                     /\ \A j \in 1..Len(scored) : scored[j].score <= scored[i].score
                     /\ \A j \in 1..(i - 1) : scored[j].score < scored[i].score
       IN <<scored[best]>>
            \o sortByScore([k \in 1..(Len(scored) - 1) |->
                              IF k < best THEN scored[k] ELSE scored[k + 1]])

pickBestEndpoint(api) ==
  LET scored == sortByScore(scoredOf(api))
  IN IF scored = <<>> THEN Str("/predict") ELSE scored[1].endpoint

-----------------------------------------------------------------------------
(* startHuggingFace: buildHfPrompt and the payload of an attempt *)

cameraMoveToNaturalText(m) ==
  CASE m = "push_in" -> "slow push-in (dolly in)"
    [] m = "pull_out" -> "slow pull-out (dolly out)"
    [] m = "pan_left" -> "slow pan left"
    [] m = "pan_right" -> "slow pan right"
    [] m = "tilt_up" -> "slow tilt up"
    [] m = "tilt_down" -> "slow tilt down"
    [] m = "orbit_left" -> "slow orbit left"
    [] m = "orbit_right" -> "slow orbit right"
    [] OTHER -> "static camera"

intensityToNaturalText(i) ==
  CASE i = "subtle" -> "subtle, gentle motion"
    [] i = "strong" -> "strong, dynamic motion"
    [] OTHER -> "moderate, natural motion"

\* the prompt text without the user's prompt in front
buildHfPrompt_NoUserPrompt(opts) ==
  intensityToNaturalText(opts.motionIntensity) \o ". Camera: "
    \o cameraMoveToNaturalText(opts.cameraMove) \o ". Duration ~"
    \o ToString(opts.durationSec) \o "s. Smooth, cinematic animation."

buildHfPrompt(opts) ==
  opts.userPrompt \o ". " \o intensityToNaturalText(opts.motionIntensity) \o ". Camera: "
    \o cameraMoveToNaturalText(opts.cameraMove) \o ". Duration ~"
    \o ToString(opts.durationSec) \o "s. Smooth, cinematic animation."

\* guidance is kept in tenths
motionIntensityToWanDefaults(i) ==
  IF i = "subtle" THEN [steps |-> 4, guidance |-> 10]
  ELSE IF i = "strong" THEN [steps |-> 6, guidance |-> 15]
  ELSE [steps |-> 5, guidance |-> 12]

\* Math.max(3, Math.round(base.steps * prof.stepsMul)), stepsMul in hundredths
stepsOf(base, prof) ==
  IF (base.steps * prof.stepsMul + 50) \div 100 < 3 THEN 3
  ELSE (base.steps * prof.stepsMul + 50) \div 100

\* handle_file(fileToSend) of the image resized to maxSide
handle_file(maxSide) == [t |-> "file", maxSide |-> maxSide]

\* a number with one decimal
Tenths(n) == [t |-> "num", tenths |-> n]

\* the parameter gets no entry
Omitted == [t |-> "omitted"]

\* the value one parameter gets, every name with "prompt" taken for the prompt
payloadValue_AnyPrompt(p, prof, ui) ==
  LET lname == toLowerCase(JsString(Coalesce(Field(p, "parameter_name"), Str(""))))
  IN IF includes(lname, "image") THEN handle_file(prof.maxSide)
     ELSE IF includes(lname, "prompt")
     THEN Str(buildHfPrompt([userPrompt |-> ui.prompt, motionIntensity |-> ui.motionIntensity,
                             durationSec |-> prof.duration, cameraMove |-> ui.cameraMove]))
     ELSE IF includes(lname, "negative")
     THEN Str("blurry, low quality, watermark, subtitles, deformed, artifacts")
     ELSE IF includes(lname, "duration") THEN Num(prof.duration)
     ELSE IF includes(lname, "steps")
     THEN Num(stepsOf(motionIntensityToWanDefaults(ui.motionIntensity), prof))
     ELSE IF includes(lname, "guidance_scale")
     THEN Tenths(motionIntensityToWanDefaults(ui.motionIntensity).guidance)
     ELSE IF lname = "seed" THEN Num(42)
     ELSE IF includes(lname, "randomize") /\ includes(lname, "seed") THEN Bool(TRUE)
     ELSE IF ~JsFalsy(Field(p, "parameter_has_default")) THEN Field(p, "parameter_default")
     ELSE Omitted

\* the value one parameter gets in the loop over params
payloadValue(p, prof, ui) ==
  LET lname == toLowerCase(JsString(Coalesce(Field(p, "parameter_name"), Str(""))))
  IN IF includes(lname, "image") THEN handle_file(prof.maxSide)
     ELSE IF lname = "prompt" \/ (includes(lname, "prompt") /\ ~includes(lname, "negative"))
     THEN Str(buildHfPrompt([userPrompt |-> ui.prompt, motionIntensity |-> ui.motionIntensity,
                             durationSec |-> prof.duration, cameraMove |-> ui.cameraMove]))
     ELSE IF includes(lname, "negative")
     THEN Str("blurry, low quality, watermark, subtitles, deformed, artifacts")
     ELSE IF includes(lname, "duration") THEN Num(prof.duration)
     ELSE IF includes(lname, "steps")
     THEN Num(stepsOf(motionIntensityToWanDefaults(ui.motionIntensity), prof))
     ELSE IF includes(lname, "guidance_scale")
     THEN Tenths(motionIntensityToWanDefaults(ui.motionIntensity).guidance)
     ELSE IF lname = "seed" THEN Num(42)
     ELSE IF includes(lname, "randomize") /\ includes(lname, "seed") THEN Bool(TRUE)
     ELSE IF ~JsFalsy(Field(p, "parameter_has_default")) THEN Field(p, "parameter_default")
     ELSE Omitted

\* the payload after the loop over params
RECURSIVE payloadOf(_, _, _, _)
payloadOf(params, prof, ui, payload) ==
  IF params = <<>> THEN payload
  ELSE payloadOf(Tail(params), prof, ui,
                 IF payloadValue(Head(params), prof, ui) = Omitted THEN payload
                 ELSE SetKey(payload,
                             JsString(Coalesce(Field(Head(params), "parameter_name"), Str(""))),
                             payloadValue(Head(params), prof, ui)))

\* what attempt number `attempt` of a candidate sends: its profile, the step
\* count and the payload for the parameters of the endpoint chosen
attemptPayload(params, attempt, ui) ==
  LET prof == attemptProfiles(clamp(ui.durationSec, 2, 6), ui.hfResizeEnabled)[attempt + 1]
  IN [prof |-> prof,
      steps |-> stepsOf(motionIntensityToWanDefaults(ui.motionIntensity), prof),
      payload |-> payloadOf(params, prof, ui, <<>>)]

----------------------------------------------------------------------------
(* State *)

VARIABLES
  provider,          \* useState: "local" | "hf" | "replicate"
  hfSpaceId,         \* useState: the selected Space
  hfResizeEnabled,   \* useState
  imageFile,         \* useState: TRUE when a file is chosen
  prompt,            \* useState
  durationSec,       \* useState
  status,            \* useState
  error,             \* useState: a message or Null
  jobId,             \* useState: a prediction id or Null
  videoUrl,          \* useState: a URL or Null
  isRunning,         \* useState
  aborted,           \* abortRef.current.aborted
  pc,                \* what onGenerate is running: "idle" | "hf" | "local" | "replicate"
  calls,             \* the awaited operations that have not settled yet
  candidateSpaces,   \* startHuggingFace: the candidate list
  spaceIdx,          \* startHuggingFace: position of spaceId in candidateSpaces
  attempt,           \* startHuggingFace: the inner loop's index
  lastErr,           \* startHuggingFace: lastErr
  frame,             \* generateLocalLiteVideo: i
  loops,             \* the runs of pollReplicate started by the polling effect
  jobs,              \* the predictions held by the remote queue
  result,            \* startHuggingFace: the result of the invocation that carried a URL
  nAttempts,         \* history: the (candidate, profile) attempts begun by this dispatch
  failedOp,          \* history: the operation whose failure the catch block is handling
  sawOverload,       \* history: an attempt of this dispatch failed with an overload message
  nSuccess,          \* history: invocations of this dispatch that returned a video URL
  nSetVideo,         \* history: setVideoUrl(url) calls since the request began
  fnArg,             \* the argument of a function or route handler called on its own
  fnRet              \* what that call returned

uiVars == <<provider, hfSpaceId, hfResizeEnabled, imageFile, prompt, durationSec>>
outVars == <<status, error, jobId, videoUrl, isRunning>>
hfVars == <<candidateSpaces, spaceIdx, attempt, lastErr, result, nAttempts,
           failedOp, sawOverload, nSuccess>>
vars == <<provider, hfSpaceId, hfResizeEnabled, imageFile, prompt, durationSec,
          status, error, jobId, videoUrl, isRunning, aborted, pc, calls,
          candidateSpaces, spaceIdx, attempt, lastErr, frame, loops, jobs,
          result, nAttempts, failedOp, sawOverload, nSuccess, nSetVideo,
          fnArg, fnRet>>

fnVars == <<fnArg, fnRet>>

\* no call is being looked at
NoCall == [t |-> "none"]

durationSafe == clamp(durationSec, 2, 6)

\* an awaited operation of onGenerate (loop = 0) or of polling loop `loop`
Call(op, ci, a, loop) == [op |-> op, ci |-> ci, attempt |-> a, loop |-> loop]

GenCalls == {c \in calls : c.loop = 0}

Init ==
  /\ provider = "local"
  /\ hfSpaceId \in InitialSpaceIds
  /\ hfResizeEnabled = TRUE
  /\ imageFile = FALSE
  /\ prompt = "Make the scene subtly come alive with natural motion."
  /\ durationSec = 4
  /\ status = ""
  /\ error = Null
  /\ jobId = Null
  /\ videoUrl = Null
  /\ isRunning = FALSE
  /\ aborted = FALSE
  /\ pc = "idle"
  /\ calls = {}
  /\ candidateSpaces = <<>>
  /\ spaceIdx = 0
  /\ attempt = 0
  /\ lastErr = JNull
  /\ frame = 0
  /\ loops = <<>>
  /\ jobs = <<>>
  /\ result = Undef
  /\ nAttempts = 0
  /\ failedOp = ""
  /\ sawOverload = FALSE
  /\ nSuccess = 0
  /\ nSetVideo = 0
  /\ fnArg = NoCall
  /\ fnRet = NoCall

----------------------------------------------------------------------------
(* The polling effect: useEffect(..., [jobId, provider]) *)

\* the effect's body starts pollReplicate
EffectStarts(newJob, newProvider) ==
  /\ <<newJob, newProvider>> # <<jobId, provider>>
  /\ ~Falsy(newJob)
  /\ newProvider = "replicate"

\* cleanup of the previous run, then the body
EffectLoops(newJob, newProvider) ==
  LET cleaned == IF <<newJob, newProvider>> # <<jobId, provider>>
                 THEN [i \in DOMAIN loops |-> [loops[i] EXCEPT !.cancelled = TRUE]]
                 ELSE loops
  IN IF EffectStarts(newJob, newProvider)
     THEN Append(cleaned, [job |-> newJob,
                           pc |-> IF aborted THEN "done" ELSE "fetch",
                           cancelled |-> FALSE,
                           trace |-> <<>>, sets |-> 0])
     ELSE cleaned

\* the first fetch of a started pollReplicate
EffectCalls(newJob, newProvider) ==
  IF EffectStarts(newJob, newProvider) /\ ~aborted
  THEN {Call("poll", 0, 0, Len(loops) + 1)}
  ELSE {}

EffectStatus(newJob, newProvider, st) ==
  IF EffectStarts(newJob, newProvider) THEN "Replicate: generating..." ELSE st

EffectFits(newJob, newProvider) ==
  EffectStarts(newJob, newProvider) => Len(loops) < MaxLoops

----------------------------------------------------------------------------
(* The environment's answers *)

\* what Client.connect, view_api, resizeImageFile and predict may throw
HfThrown ==
  { ErrorOf("GPU task aborted"),
    ErrorOf("ZeroGPU worker error"),
    ErrorOf("Insufficient GPU time left"),
    ErrorOf("You have exceeded your GPU quota"),
    ErrorOf("60s requested"),
    ErrorOf("Connection timed out"),
    ErrorOf("Space is OVERLOADED"),
    ErrorOf("GPU task abort"),
    ErrorOf("Space not found"),
    Str("Failed to fetch") }

\* what predict may return
GradioResults ==
  { Obj([data |-> Arr(<<Obj([url |-> Str("https://hf.space/file=out.mp4")])>>)]),
    Obj([data |-> Arr(<<JNull, Obj([video |-> Obj([path |-> Str("https://hf.space/v.mp4")])])>>)]),
    Str("https://hf.space/direct.mp4"),
    Obj([data |-> Arr(<<Obj([path |-> Str("/tmp/out.mp4")])>>)]),
    Obj([data |-> Arr(<<>>)]) }

----------------------------------------------------------------------------
(* startHuggingFace *)

Exhausted == <<0, 0>>

\* the two for loops, entered at the inner loop's condition with (ci, a):
\* the pair of the next iteration that runs its body, or Exhausted
RECURSIVE LoopHead_NoAbortCheck(_, _, _, _, _)
LoopHead_NoAbortCheck(cands, nProfiles, ci, a, ab) ==
  IF ci > Len(cands) THEN Exhausted
  ELSE IF a >= nProfiles THEN LoopHead_NoAbortCheck(cands, nProfiles, ci + 1, 0, ab)
  ELSE <<ci, a>>

RECURSIVE LoopHead(_, _, _, _, _)
LoopHead(cands, nProfiles, ci, a, ab) ==
  IF ci > Len(cands) THEN Exhausted
  ELSE IF a >= nProfiles THEN LoopHead(cands, nProfiles, ci + 1, 0, ab)
  ELSE IF ab THEN LoopHead(cands, nProfiles, ci + 1, 0, ab)
  ELSE <<ci, a>>

NumProfiles == Len(attemptProfiles(durationSafe, hfResizeEnabled))

\* the catch block's decision after a failure with message msg: "next" leaves
\* the inner loop (break), "retry" pauses 800 ms and goes on with attempt + 1
AfterFailure_RetryAlways(msg) == "retry"

AfterFailure(msg) == IF ~looksLikeHfGpuAbort(msg) THEN "next" ELSE "retry"

\* the position after the 800 ms pause: attempt++
AfterWait_SameProfile(ci, a) == <<ci, a>>

AfterWait(ci, a) == <<ci, a + 1>>

\* String(lastErr?.message ?? lastErr ?? "Unknown error")
lastMsg(le) == JsString(Coalesce(Coalesce(Field(le, "message"), le), Str("Unknown error")))

ExhaustedMessage(le) == ExhaustedPrefix \o lastMsg(le)

\* re-enter the loops at (ci, a) after the awaited operation c has settled:
\* either the next attempt begins with Client.connect, or the loops end and the
\* error thrown after them is caught by onGenerate
HfEnter(c, cands, ci, a, le) ==
  LET pos == LoopHead(cands, NumProfiles, ci, a, aborted)
  IN /\ candidateSpaces' = cands
     /\ lastErr' = le
     /\ failedOp' = ""
     /\ UNCHANGED result
     /\ IF pos = Exhausted
        THEN /\ pc' = "idle"
             /\ calls' = calls \ {c}
             /\ UNCHANGED <<spaceIdx, attempt, nAttempts>>
             /\ isRunning' = FALSE
             /\ status' = ""
             /\ error' = ExhaustedMessage(le)
        ELSE /\ pc' = "hf"
             /\ calls' = (calls \ {c}) \cup {Call("connect", pos[1], pos[2], 0)}
             /\ spaceIdx' = pos[1]
             /\ attempt' = pos[2]
             /\ nAttempts' = nAttempts + 1
             /\ status' = "Connecting to HF Space: " \o cands[pos[1]] \o "..."
             /\ UNCHANGED <<isRunning, error>>

\* the catch block of the attempt
HfCatch(c, e) ==
  LET msg == MsgOf(e)
  IN /\ sawOverload' = (sawOverload \/ looksLikeHfGpuAbort(msg))
     /\ IF AfterFailure(msg) = "retry"
        THEN /\ lastErr' = e
             /\ failedOp' = c.op
             /\ UNCHANGED result
             /\ status' = "HF busy (attempt " \o ToString(attempt + 1) \o "/3). Retrying with lighter settings..."
             /\ calls' = (calls \ {c}) \cup {Call("sleep800", spaceIdx, attempt, 0)}
             /\ UNCHANGED <<pc, candidateSpaces, spaceIdx, attempt, nAttempts, isRunning, error>>
        ELSE HfEnter(c, candidateSpaces, spaceIdx + 1, 0, e)

\* what an awaited operation of an attempt may throw
Thrown(op) ==
  IF op = "resize"
  THEN {ErrorOf("Failed to resize image"), ErrorOf("The source image could not be decoded.")}
  ELSE HfThrown

AttemptOps == {"connect", "view_api", "resize", "predict"}

\* await loadGradioClientFromCDN() resolves: the loops are entered
HfImportReturn ==
  \E c \in GenCalls :
    /\ c.op = "import"
    /\ HfEnter(c, candidateSpaces, 1, 0, JNull)
    /\ UNCHANGED <<fnVars, uiVars, jobId, videoUrl, aborted, frame, loops, jobs,
                   sawOverload, nSuccess, nSetVideo>>

\* await loadGradioClientFromCDN() rejects: caught by onGenerate
HfImportFail ==
  \E c \in GenCalls, e \in {ErrorOf("Failed to fetch dynamically imported module")} :
    /\ c.op = "import"
    /\ pc' = "idle"
    /\ calls' = calls \ {c}
    /\ isRunning' = FALSE
    /\ status' = ""
    /\ error' = MessageOr(e, "Something went wrong.")
    /\ UNCHANGED <<fnVars, uiVars, jobId, videoUrl, aborted, hfVars, frame, loops, jobs, nSetVideo>>

\* await Client.connect(spaceId) resolves
HfConnectReturn ==
  \E c \in GenCalls :
    /\ c.op = "connect"
    /\ calls' = (calls \ {c}) \cup {Call("view_api", c.ci, c.attempt, 0)}
    /\ status' = "Inspecting Space API..."
    /\ UNCHANGED <<fnVars, uiVars, error, jobId, videoUrl, isRunning, aborted, pc, hfVars,
                   frame, loops, jobs, nSetVideo>>

\* await app.view_api(fetch) resolves: endpoint chosen, resizeImageFile awaited
HfViewApiReturn ==
  \E c \in GenCalls :
    /\ c.op = "view_api"
    /\ calls' = (calls \ {c}) \cup {Call("resize", c.ci, c.attempt, 0)}
    /\ UNCHANGED <<fnVars, uiVars, outVars, aborted, pc, hfVars, frame, loops, jobs, nSetVideo>>

\* await resizeImageFile(...) resolves: payload built, predict awaited
HfResizeReturn ==
  \E c \in GenCalls :
    /\ c.op = "resize"
    /\ calls' = (calls \ {c}) \cup {Call("predict", c.ci, c.attempt, 0)}
    /\ status' = "Generating on " \o candidateSpaces[c.ci] \o "... (may queue)"
    /\ UNCHANGED <<fnVars, uiVars, error, jobId, videoUrl, isRunning, aborted, pc, hfVars,
                   frame, loops, jobs, nSetVideo>>

\* await app.predict(endpoint, payload) resolves with a result that carries a URL
HfPredictSuccess_NoReturn ==
  \E c \in GenCalls, res \in GradioResults :
    /\ c.op = "predict"
    /\ ~Falsy(extractVideoUrlFromGradio(res))
    /\ videoUrl' = extractVideoUrlFromGradio(res)
    /\ nSetVideo' = nSetVideo + 1
    /\ nSuccess' = nSuccess + 1
    /\ sawOverload' = sawOverload
    /\ HfEnter(c, candidateSpaces, spaceIdx, attempt + 1, lastErr)
    /\ UNCHANGED <<fnVars, uiVars, jobId, aborted, frame, loops, jobs>>

HfPredictSuccess ==
  \E c \in GenCalls, res \in GradioResults :
    /\ c.op = "predict"
    /\ ~Falsy(extractVideoUrlFromGradio(res))
    /\ result' = res
    /\ videoUrl' = extractVideoUrlFromGradio(res)
    /\ status' = "Done (ok)"
    /\ isRunning' = FALSE
    /\ pc' = "idle"
    /\ calls' = calls \ {c}
    /\ nSetVideo' = nSetVideo + 1
    /\ nSuccess' = nSuccess + 1
    /\ UNCHANGED <<fnVars, uiVars, error, jobId, aborted, candidateSpaces, spaceIdx, attempt,
                   lastErr, nAttempts, failedOp, sawOverload, frame, loops, jobs>>

\* await app.predict(endpoint, payload) resolves with a result that carries no URL
HfPredictNoUrl ==
  \E c \in GenCalls, res \in GradioResults :
    /\ c.op = "predict"
    /\ Falsy(extractVideoUrlFromGradio(res))
    /\ HfCatch(c, ErrorOf(NoUrlMessage))
    /\ UNCHANGED <<fnVars, uiVars, jobId, videoUrl, aborted, frame, loops, jobs, nSuccess, nSetVideo>>

\* an awaited operation of the attempt rejects
HfReject ==
  \E c \in GenCalls :
    /\ c.op \in AttemptOps
    /\ \E e \in Thrown(c.op) : HfCatch(c, e)
    /\ UNCHANGED <<fnVars, uiVars, jobId, videoUrl, aborted, frame, loops, jobs, nSuccess, nSetVideo>>

\* the 800 ms pause of the catch block ends
HfWaitDone ==
  \E c \in GenCalls :
    /\ c.op = "sleep800"
    /\ HfEnter(c, candidateSpaces, AfterWait(spaceIdx, attempt)[1],
               AfterWait(spaceIdx, attempt)[2], lastErr)
    /\ UNCHANGED <<fnVars, uiVars, jobId, videoUrl, aborted, frame, loops, jobs,
                   sawOverload, nSuccess, nSetVideo>>

----------------------------------------------------------------------------
(* The form and onGenerate *)

\* validate(): the message it sets, or Null when it returns true
validateError ==
  IF Len(prompt) < 3 THEN "Please write a prompt (at least 3 characters)."
  ELSE IF Len(prompt) > 500 THEN "String must contain at most 500 character(s)"
  ELSE IF durationSafe < 2 THEN "Number must be greater than or equal to 2"
  ELSE IF durationSafe > 6 THEN "Number must be less than or equal to 6"
  ELSE IF ~imageFile THEN "Please upload an image first."
  ELSE Null

\* the Generate button is enabled and receives a click; one onGenerate runs at a time
Clickable == ~isRunning /\ ~aborted /\ pc = "idle"

\* the controls are enabled
Editable == ~isRunning /\ ~aborted

SetProvider(p) ==
  /\ Editable
  /\ p # provider
  /\ EffectFits(jobId, p)
  /\ provider' = p
  /\ loops' = EffectLoops(jobId, p)
  /\ calls' = calls \cup EffectCalls(jobId, p)
  /\ status' = EffectStatus(jobId, p, status)
  /\ UNCHANGED <<fnVars, hfSpaceId, hfResizeEnabled, imageFile, prompt, durationSec, error, jobId,
                 videoUrl, isRunning, aborted, pc, hfVars, frame, jobs, nSetVideo>>

SetHfSpaceId(id) ==
  /\ Editable
  /\ provider = "hf"
  /\ id # hfSpaceId
  /\ hfSpaceId' = id
  /\ UNCHANGED <<fnVars, provider, hfResizeEnabled, imageFile, prompt, durationSec, outVars, aborted,
                 pc, calls, hfVars, frame, loops, jobs, nSetVideo>>

SetHfResizeEnabled(b) ==
  /\ Editable
  /\ provider = "hf"
  /\ b # hfResizeEnabled
  /\ hfResizeEnabled' = b
  /\ UNCHANGED <<fnVars, provider, hfSpaceId, imageFile, prompt, durationSec, outVars, aborted,
                 pc, calls, hfVars, frame, loops, jobs, nSetVideo>>

SetImageFile(f) ==
  /\ Editable
  /\ f # imageFile
  /\ imageFile' = f
  /\ UNCHANGED <<fnVars, provider, hfSpaceId, hfResizeEnabled, prompt, durationSec, outVars, aborted,
                 pc, calls, hfVars, frame, loops, jobs, nSetVideo>>

SetPrompt(text) ==
  /\ Editable
  /\ text # prompt
  /\ prompt' = text
  /\ UNCHANGED <<fnVars, provider, hfSpaceId, hfResizeEnabled, imageFile, durationSec, outVars, aborted,
                 pc, calls, hfVars, frame, loops, jobs, nSetVideo>>

SetDurationSec(n) ==
  /\ Editable
  /\ n # durationSec
  /\ durationSec' = n
  /\ UNCHANGED <<fnVars, provider, hfSpaceId, hfResizeEnabled, imageFile, prompt, outVars, aborted,
                 pc, calls, hfVars, frame, loops, jobs, nSetVideo>>

\* the component unmounts: the cleanups of the effects run
Unmount ==
  /\ ~aborted
  /\ aborted' = TRUE
  /\ loops' = [i \in DOMAIN loops |-> [loops[i] EXCEPT !.cancelled = TRUE]]
  /\ UNCHANGED <<fnVars, uiVars, outVars, pc, calls, hfVars, frame, jobs, nSetVideo>>

\* onGenerate: validate() returns false
GenerateInvalid ==
  /\ Clickable
  /\ validateError # Null
  /\ error' = validateError
  /\ UNCHANGED <<fnVars, uiVars, status, jobId, videoUrl, isRunning, aborted, pc, calls, hfVars,
                 frame, loops, jobs, nSetVideo>>

\* onGenerate with provider "hf": startHuggingFace up to its first await
GenerateHf ==
  /\ Clickable
  /\ validateError = Null
  /\ provider = "hf"
  /\ error' = Null
  /\ videoUrl' = Null
  /\ jobId' = Null
  /\ isRunning' = TRUE
  /\ pc' = "hf"
  /\ calls' = calls \cup {Call("import", 0, 0, 0)}
  /\ loops' = EffectLoops(Null, provider)
  /\ candidateSpaces' = uniq(<<hfSpaceId>> \o HF_SPACES)
  /\ spaceIdx' = 0
  /\ attempt' = 0
  /\ lastErr' = JNull
  /\ result' = Undef
  /\ nAttempts' = 0
  /\ failedOp' = ""
  /\ sawOverload' = FALSE
  /\ nSuccess' = 0
  /\ nSetVideo' = 0
  /\ UNCHANGED <<fnVars, uiVars, status, aborted, frame, jobs>>

----------------------------------------------------------------------------
(* The remote queue *)

JobIdOf(n) == "pred-" \o ToString(n)

JobOf(id) == CHOOSE n \in 1..Len(jobs) : JobIdOf(n) = id

TerminalStatuses == {"succeeded", "failed", "canceled"}

\* prediction.output of a succeeded prediction
JobOutputs == {Str("https://x/video.mp4"), Arr(<<Obj([url |-> Fn(Str("https://x/file.mp4"))])>>), Undef}

\* prediction.error of a failed prediction
JobErrors == {Null, "CUDA out of memory"}

\* the queue moves a prediction on; no transition leaves a terminal status
JobAdvance(n) ==
  /\ n \in 1..Len(jobs)
  /\ jobs[n].status \notin TerminalStatuses
  /\ \/ /\ jobs[n].status = "starting"
        /\ jobs' = [jobs EXCEPT ![n].status = "processing"]
     \/ \E out \in JobOutputs :
          jobs' = [jobs EXCEPT ![n].status = "succeeded", ![n].output = out]
     \/ \E err \in JobErrors :
          jobs' = [jobs EXCEPT ![n].status = "failed", ![n].error = err]
     \/ jobs' = [jobs EXCEPT ![n].status = "canceled"]
  /\ UNCHANGED <<fnVars, uiVars, outVars, aborted, pc, calls, hfVars, frame, loops, nSetVideo>>

\* GET /api/predict/[id]: the JSON body of a 200 response
GET(n) ==
  [ status |-> jobs[n].status,
    error |-> jobs[n].error,
    output_url |-> pickVideoUrl(jobs[n].output) ]

----------------------------------------------------------------------------
(* startReplicate *)

GenerateReplicate ==
  /\ Clickable
  /\ validateError = Null
  /\ provider = "replicate"
  /\ Len(jobs) < MaxJobs
  /\ Len(loops) < MaxLoops
  /\ error' = Null
  /\ videoUrl' = Null
  /\ jobId' = Null
  /\ isRunning' = TRUE
  /\ status' = "Starting Replicate job..."
  /\ pc' = "replicate"
  /\ calls' = calls \cup {Call("post", 0, 0, 0)}
  /\ loops' = EffectLoops(Null, provider)
  /\ nSetVideo' = 0
  /\ UNCHANGED <<fnVars, uiVars, aborted, hfVars, frame, jobs>>

\* POST /api/predict answers 200 with the id of the prediction it created
RepPostOk ==
  \E c \in GenCalls :
    /\ c.op = "post"
    /\ Len(jobs) < MaxJobs
    /\ EffectFits(JobIdOf(Len(jobs) + 1), provider)
    /\ jobs' = Append(jobs, [status |-> "starting", error |-> Null, output |-> Undef])
    /\ jobId' = JobIdOf(Len(jobs) + 1)
    /\ pc' = "idle"
    /\ loops' = EffectLoops(JobIdOf(Len(jobs) + 1), provider)
    /\ calls' = (calls \ {c}) \cup EffectCalls(JobIdOf(Len(jobs) + 1), provider)
    /\ status' = EffectStatus(JobIdOf(Len(jobs) + 1), provider, status)
    /\ UNCHANGED <<fnVars, uiVars, error, videoUrl, isRunning, aborted, hfVars, frame, nSetVideo>>

\* data.error of a response that is not ok
PostErrors ==
  { Str("This model schema did not expose an image input. Pick a model that supports image-to-video."),
    Undef }

\* POST /api/predict answers with an error status: thrown, caught by onGenerate
RepPostFail ==
  \E c \in GenCalls, de \in PostErrors :
    /\ c.op = "post"
    /\ pc' = "idle"
    /\ calls' = calls \ {c}
    /\ isRunning' = FALSE
    /\ status' = ""
    /\ error' = JsString(Coalesce(de, Str("Failed to start prediction.")))
    /\ UNCHANGED <<fnVars, uiVars, jobId, videoUrl, aborted, hfVars, frame, loops, jobs, nSetVideo>>

----------------------------------------------------------------------------
(* pollReplicate, run by the polling effect *)

PollCall(i) == Call("poll", 0, 0, i)

\* history of loop l: the statuses its responses reported, in order, a status
\* repeated by successive responses kept once ("http_error": a response not ok)
Heard(l, st) ==
  IF Len(l.trace) > 0 /\ l.trace[Len(l.trace)] = st
  THEN l
  ELSE [l EXCEPT !.trace = Append(@, st)]

\* the effect's catch block for loop i, with the message of the thrown error
EffectCatch(i, msg) ==
  IF loops[i].cancelled
  THEN UNCHANGED <<isRunning, status, error>>
  ELSE /\ isRunning' = FALSE
       /\ status' = ""
       /\ error' = msg

\* the fetch of loop i is answered: status succeeded with an output URL
PollSucceeded_KeepPolling(i) ==
  /\ PollCall(i) \in calls
  /\ LET j == GET(JobOf(loops[i].job))
     IN /\ j.status = "succeeded"
        /\ ~Falsy(j.output_url)
        /\ videoUrl' = j.output_url
        /\ status' = "Done (ok)"
        /\ isRunning' = FALSE
        /\ nSetVideo' = nSetVideo + 1
        /\ calls' = (calls \ {PollCall(i)}) \cup {Call("sleep1500", 0, 0, i)}
        /\ loops' = [loops EXCEPT ![i] = [Heard(@, j.status) EXCEPT !.pc = "sleep", !.sets = @ + 1]]
  /\ UNCHANGED <<fnVars, uiVars, error, jobId, aborted, pc, hfVars, frame, jobs>>

PollSucceeded(i) ==
  /\ PollCall(i) \in calls
  /\ LET j == GET(JobOf(loops[i].job))
     IN /\ j.status = "succeeded"
        /\ ~Falsy(j.output_url)
        /\ videoUrl' = j.output_url
        /\ status' = "Done (ok)"
        /\ isRunning' = FALSE
        /\ nSetVideo' = nSetVideo + 1
        /\ calls' = calls \ {PollCall(i)}
        /\ loops' = [loops EXCEPT ![i] = [Heard(@, j.status) EXCEPT !.pc = "done", !.sets = @ + 1]]
  /\ UNCHANGED <<fnVars, uiVars, error, jobId, aborted, pc, hfVars, frame, jobs>>

\* ... status succeeded without an output URL: thrown
PollSucceededNoUrl_Retry(i) ==
  /\ PollCall(i) \in calls
  /\ LET j == GET(JobOf(loops[i].job))
     IN /\ j.status = "succeeded"
        /\ Falsy(j.output_url)
        /\ calls' = (calls \ {PollCall(i)}) \cup {Call("sleep1500", 0, 0, i)}
        /\ loops' = [loops EXCEPT ![i] = [Heard(@, j.status) EXCEPT !.pc = "sleep"]]
  /\ UNCHANGED <<fnVars, uiVars, outVars, aborted, pc, hfVars, frame, jobs, nSetVideo>>

PollSucceededNoUrl(i) ==
  /\ PollCall(i) \in calls
  /\ LET j == GET(JobOf(loops[i].job))
     IN /\ j.status = "succeeded"
        /\ Falsy(j.output_url)
        /\ EffectCatch(i, "Replicate succeeded but no output video URL found.")
        /\ calls' = calls \ {PollCall(i)}
        /\ loops' = [loops EXCEPT ![i] = [Heard(@, j.status) EXCEPT !.pc = "done"]]
  /\ UNCHANGED <<fnVars, uiVars, jobId, videoUrl, aborted, pc, hfVars, frame, jobs, nSetVideo>>

\* ... status failed or canceled: thrown
PollFailed(i) ==
  /\ PollCall(i) \in calls
  /\ LET j == GET(JobOf(loops[i].job))
     IN /\ j.status \in {"failed", "canceled"}
        /\ EffectCatch(i, IF j.error # Null THEN j.error
                          ELSE "Replicate job " \o j.status \o ".")
        /\ calls' = calls \ {PollCall(i)}
        /\ loops' = [loops EXCEPT ![i] = [Heard(@, j.status) EXCEPT !.pc = "done"]]
  /\ UNCHANGED <<fnVars, uiVars, jobId, videoUrl, aborted, pc, hfVars, frame, jobs, nSetVideo>>

\* ... any other status: the 1.5 s pause begins
PollPending(i) ==
  /\ PollCall(i) \in calls
  /\ LET j == GET(JobOf(loops[i].job))
     IN /\ j.status \notin TerminalStatuses
        /\ status' = "Replicate: " \o j.status \o "..."
        /\ calls' = (calls \ {PollCall(i)}) \cup {Call("sleep1500", 0, 0, i)}
        /\ loops' = [loops EXCEPT ![i] = [Heard(@, j.status) EXCEPT !.pc = "sleep"]]
  /\ UNCHANGED <<fnVars, uiVars, error, jobId, videoUrl, isRunning, aborted, pc, hfVars, frame,
                 jobs, nSetVideo>>

\* j.error of a response that is not ok
GetErrors == {Str("Missing REPLICATE_API_TOKEN. Put it in your .env.local."), Undef}

\* ... the response is not ok: thrown
PollHttpError(i) ==
  /\ PollCall(i) \in calls
  /\ \E je \in GetErrors :
       EffectCatch(i, JsString(Coalesce(je, Str("Replicate polling failed."))))
  /\ calls' = calls \ {PollCall(i)}
  /\ loops' = [loops EXCEPT ![i] = [Heard(@, "http_error") EXCEPT !.pc = "done"]]
  /\ UNCHANGED <<fnVars, uiVars, jobId, videoUrl, aborted, pc, hfVars, frame, jobs, nSetVideo>>

\* the 1.5 s pause of loop i ends: the while condition, then the next fetch
PollWake(i) ==
  /\ Call("sleep1500", 0, 0, i) \in calls
  /\ IF aborted
     THEN /\ calls' = calls \ {Call("sleep1500", 0, 0, i)}
          /\ loops' = [loops EXCEPT ![i].pc = "done"]
     ELSE /\ calls' = (calls \ {Call("sleep1500", 0, 0, i)}) \cup {PollCall(i)}
          /\ loops' = [loops EXCEPT ![i].pc = "fetch"]
  /\ UNCHANGED <<fnVars, uiVars, outVars, aborted, pc, hfVars, frame, jobs, nSetVideo>>

----------------------------------------------------------------------------
(* generateLocalLiteVideo *)

fps == 24

\* Math.round of the non-negative quotient a / b
RoundDiv(a, b) == (2 * a + b) \div (2 * b)

\* the frames of two seconds
frames_TwoSeconds == 2 * fps

\* Math.max(12, Math.round(opts.durationSec * fps))
frames == IF durationSafe * fps > 12 THEN durationSafe * fps ELSE 12

\* the share of the frames drawn, the frame in hand included
Percent_OfFrames(i) == RoundDiv(100 * (i + 1), frames)

\* Math.round((i / (frames - 1)) * 100)
Percent(i) == RoundDiv(100 * i, frames - 1)

RenderStatus(i) == "Rendering locally... " \o ToString(Percent(i)) \o "%"

\* onGenerate with provider "local", up to await createImageBitmap
GenerateLocal ==
  /\ Clickable
  /\ validateError = Null
  /\ provider = "local"
  /\ error' = Null
  /\ videoUrl' = Null
  /\ jobId' = Null
  /\ isRunning' = TRUE
  /\ status' = "Preparing local (free) render..."
  /\ pc' = "local"
  /\ calls' = calls \cup {Call("bitmap", 0, 0, 0)}
  /\ loops' = EffectLoops(Null, provider)
  /\ frame' = 0
  /\ nSetVideo' = 0
  /\ UNCHANGED <<fnVars, uiVars, aborted, hfVars, jobs>>

\* createImageBitmap resolves, canvas and recorder exist: frame 0 is drawn
LocalBegin ==
  \E c \in GenCalls :
    /\ c.op = "bitmap"
    /\ frame' = 0
    /\ status' = RenderStatus(0)
    /\ calls' = (calls \ {c}) \cup {Call("frameTimer", 0, 0, 0)}
    /\ UNCHANGED <<fnVars, uiVars, error, jobId, videoUrl, isRunning, aborted, pc, hfVars,
                   loops, jobs, nSetVideo>>

\* createImageBitmap rejects, or there is no 2d context, or no MediaRecorder
LocalErrors ==
  { ErrorOf("The source image could not be decoded."),
    ErrorOf("Canvas not supported in this browser."),
    ErrorOf("MediaRecorder is not defined") }

\* the recorder gives up between two frames
LocalUnavailable_MidRender ==
  \E c \in GenCalls, e \in LocalErrors :
    /\ c.op = "frameTimer"
    /\ pc' = "idle"
    /\ calls' = calls \ {c}
    /\ isRunning' = FALSE
    /\ status' = ""
    /\ error' = MessageOr(e, "Something went wrong.")
    /\ UNCHANGED <<fnVars, uiVars, jobId, videoUrl, aborted, hfVars, frame, loops, jobs, nSetVideo>>

LocalUnavailable ==
  \E c \in GenCalls, e \in LocalErrors :
    /\ c.op = "bitmap"
    /\ pc' = "idle"
    /\ calls' = calls \ {c}
    /\ isRunning' = FALSE
    /\ status' = ""
    /\ error' = MessageOr(e, "Something went wrong.")
    /\ UNCHANGED <<fnVars, uiVars, jobId, videoUrl, aborted, hfVars, frame, loops, jobs, nSetVideo>>

\* the per-frame wait ends: i++, then the next frame or rec.stop()
LocalFrame ==
  \E c \in GenCalls :
    /\ c.op = "frameTimer"
    /\ frame' = frame + 1
    /\ IF frame + 1 < frames
       THEN /\ status' = RenderStatus(frame + 1)
            /\ calls' = calls
       ELSE /\ status' = "Done (ok) (local render)"
            /\ calls' = (calls \ {c}) \cup {Call("recorderStop", 0, 0, 0)}
    /\ UNCHANGED <<fnVars, uiVars, error, jobId, videoUrl, isRunning, aborted, pc, hfVars,
                   loops, jobs, nSetVideo>>

\* rec.onstop resolves the promise with the blob URL
LocalDone ==
  \E c \in GenCalls :
    /\ c.op = "recorderStop"
    /\ videoUrl' = "blob:local-render"
    /\ isRunning' = FALSE
    /\ pc' = "idle"
    /\ calls' = calls \ {c}
    /\ nSetVideo' = nSetVideo + 1
    /\ UNCHANGED <<fnVars, uiVars, status, error, jobId, aborted, hfVars, frame, loops, jobs>>

----------------------------------------------------------------------------
(* Specifications *)

Prompts == {"Hi", "Make the scene subtly come alive with natural motion."}

Durations == {2, 4}

SpaceIds == {HF_SPACES[i] : i \in DOMAIN HF_SPACES}

HfStep ==
  \/ GenerateHf
  \/ HfImportReturn
  \/ HfImportFail
  \/ HfConnectReturn
  \/ HfViewApiReturn
  \/ HfResizeReturn
  \/ HfPredictSuccess
  \/ HfPredictNoUrl
  \/ HfReject
  \/ HfWaitDone

PollStep ==
  \/ \E i \in DOMAIN loops : PollSucceeded(i)
  \/ \E i \in DOMAIN loops : PollSucceededNoUrl(i)
  \/ \E i \in DOMAIN loops : PollFailed(i)
  \/ \E i \in DOMAIN loops : PollPending(i)
  \/ \E i \in DOMAIN loops : PollHttpError(i)
  \/ \E i \in DOMAIN loops : PollWake(i)

ReplicateStep ==
  \/ GenerateReplicate
  \/ RepPostOk
  \/ RepPostFail
  \/ \E n \in 1..MaxJobs : JobAdvance(n)
  \/ PollStep

LocalStep ==
  \/ GenerateLocal
  \/ LocalBegin
  \/ LocalUnavailable
  \/ LocalFrame
  \/ LocalDone

FormStep ==
  \/ \E p \in Providers : SetProvider(p)
  \/ \E id \in SpaceIds : SetHfSpaceId(id)
  \/ \E b \in BOOLEAN : SetHfResizeEnabled(b)
  \/ \E f \in BOOLEAN : SetImageFile(f)
  \/ \E text \in Prompts : SetPrompt(text)
  \/ \E n \in Durations : SetDurationSec(n)
  \/ GenerateInvalid
  \/ Unmount

Next == FormStep \/ HfStep \/ ReplicateStep \/ LocalStep

Spec == Init /\ [][Next]_vars

\* the Hugging Face path alone: the form is filled in for it, then dispatches run
NextHF ==
  \/ \E p \in {"hf"} : SetProvider(p)
  \/ \E f \in {TRUE} : SetImageFile(f)
  \/ \E id \in {HF_SPACES[3]} : SetHfSpaceId(id)
  \/ GenerateInvalid
  \/ Unmount
  \/ HfStep

SpecHF == Init /\ [][NextHF]_vars

\* the Replicate path alone; leaving the provider and coming back re-runs the effect
NextPoll ==
  \/ \E p \in {"replicate", "local"} : SetProvider(p)
  \/ \E f \in {TRUE} : SetImageFile(f)
  \/ GenerateInvalid
  \/ Unmount
  \/ ReplicateStep

SpecPoll == Init /\ [][NextPoll]_vars

\* the durations the number field of the form may be given
FormDurations == {0, 1, 2, 4, 6, 10}

\* the form is edited and Generate is clicked: onGenerate up to the first
\* await of the backend it starts
NextForm ==
  \/ \E p \in Providers : SetProvider(p)
  \/ \E f \in BOOLEAN : SetImageFile(f)
  \/ \E text \in Prompts : SetPrompt(text)
  \/ \E n \in FormDurations : SetDurationSec(n)
  \/ GenerateInvalid
  \/ GenerateHf
  \/ GenerateReplicate
  \/ GenerateLocal

SpecForm == Init /\ [][NextForm]_vars

\* the local renderer alone: an image is chosen, the duration is set, Generate
\* is clicked with the provider left at "local"
NextLocal ==
  \/ \E f \in {TRUE} : SetImageFile(f)
  \/ \E n \in 1..7 : SetDurationSec(n)
  \/ GenerateInvalid
  \/ LocalStep

SpecLocal == Init /\ [][NextLocal]_vars

\* the form is filled in for one of the two remote backends and left alone;
\* the component may unmount at any moment
InitCancel ==
  /\ provider \in {"hf", "replicate"}
  /\ hfSpaceId \in InitialSpaceIds
  /\ hfResizeEnabled = TRUE
  /\ imageFile = TRUE
  /\ prompt = "Make the scene subtly come alive with natural motion."
  /\ durationSec = 4
  /\ status = ""
  /\ error = Null
  /\ jobId = Null
  /\ videoUrl = Null
  /\ isRunning = FALSE
  /\ aborted = FALSE
  /\ pc = "idle"
  /\ calls = {}
  /\ candidateSpaces = <<>>
  /\ spaceIdx = 0
  /\ attempt = 0
  /\ lastErr = JNull
  /\ result = Undef
  /\ frame = 0
  /\ loops = <<>>
  /\ jobs = <<>>
  /\ nAttempts = 0
  /\ failedOp = ""
  /\ sawOverload = FALSE
  /\ nSuccess = 0
  /\ nSetVideo = 0
  /\ fnArg = NoCall
  /\ fnRet = NoCall

NextCancel == Unmount \/ HfStep \/ ReplicateStep

SpecCancel == InitCancel /\ [][NextCancel]_vars

\* an awaited operation of startHuggingFace settles
HfSettle ==
  \/ HfImportReturn
  \/ HfImportFail
  \/ HfConnectReturn
  \/ HfViewApiReturn
  \/ HfResizeReturn
  \/ HfPredictSuccess
  \/ HfPredictNoUrl
  \/ HfReject
  \/ HfWaitDone

\* every remote call returns and every timer fires
LiveSpecHF == SpecHF /\ WF_vars(HfSettle)

\* POST /api/predict answers
RepPostSettle == RepPostOk \/ RepPostFail

\* the remote queue moves a prediction that has not finished
QueueAdvance == \E n \in 1..MaxJobs : JobAdvance(n)

\* every request and every pause of the Replicate path ends, and every
\* prediction reaches a terminal status
LiveSpecPoll ==
  SpecPoll /\ WF_vars(RepPostSettle) /\ WF_vars(QueueAdvance) /\ WF_vars(PollStep)

\* a session whose Replicate generation has ended: prediction 1 succeeded and
\* its video is shown, or it failed and its error is shown; the run of
\* pollReplicate that heard it is over
InitAfterJob ==
  /\ provider = "replicate"
  /\ hfSpaceId = HF_SPACES[1]
  /\ hfResizeEnabled = TRUE
  /\ imageFile = TRUE
  /\ prompt = "Make the scene subtly come alive with natural motion."
  /\ durationSec = 4
  /\ jobId = JobIdOf(1)
  /\ isRunning = FALSE
  /\ \/ /\ jobs = << [status |-> "succeeded", error |-> Null, output |-> Str("https://x/video.mp4")] >>
        /\ videoUrl = "https://x/video.mp4"
        /\ status = "Done (ok)"
        /\ error = Null
        /\ nSetVideo = 1
     \/ /\ jobs = << [status |-> "failed", error |-> "CUDA out of memory", output |-> Undef] >>
        /\ videoUrl = Null
        /\ status = ""
        /\ error = "CUDA out of memory"
        /\ nSetVideo = 0
  /\ aborted = FALSE
  /\ pc = "idle"
  /\ calls = {}
  /\ candidateSpaces = <<>>
  /\ spaceIdx = 0
  /\ attempt = 0
  /\ lastErr = JNull
  /\ result = Undef
  /\ frame = 0
  /\ loops = <<>>
  /\ nAttempts = 0
  /\ failedOp = ""
  /\ sawOverload = FALSE
  /\ nSuccess = 0
  /\ fnArg = NoCall
  /\ fnRet = NoCall

\* the user leaves the Replicate provider and comes back, and generates again
NextRerun ==
  \/ \E p \in {"replicate", "local"} : SetProvider(p)
  \/ ReplicateStep

SpecRerun == InitAfterJob /\ [][NextRerun]_vars

\* values a prediction's output may hold or contain
OutputItems ==
  { Undef, JNull, Str(""), Str("https://x/a.mp4"), Str("https://x/b.mp4"),
    Num(0), Num(7), Bool(TRUE),
    Obj([url |-> Str("https://x/c.mp4")]),
    Obj([url |-> Fn(Str("https://x/d.mp4"))]),
    Obj([url |-> Fn(Undef)]),
    Obj([url |-> Num(7)]),
    Obj([url |-> Str("")]),
    Obj([href |-> Str("https://x/e.mp4")]) }

\* ... and the outputs: a value, or an array of up to two values or arrays
OutputShapes ==
  OutputItems
    \cup {Arr(<<>>)}
    \cup {Arr(<<a>>) : a \in OutputItems}
    \cup {Arr(<<a, b>>) : a \in OutputItems, b \in OutputItems}
    \cup {Arr(<<Arr(<<a>>)>>) : a \in OutputItems}

\* the session is polling prediction 1, which the queue has completed with
\* some output before answering the first request
InitPolling ==
  /\ provider = "replicate"
  /\ hfSpaceId = HF_SPACES[1]
  /\ hfResizeEnabled = TRUE
  /\ imageFile = TRUE
  /\ prompt = "Make the scene subtly come alive with natural motion."
  /\ durationSec = 4
  /\ status = "Replicate: generating..."
  /\ error = Null
  /\ jobId = JobIdOf(1)
  /\ videoUrl = Null
  /\ isRunning = TRUE
  /\ aborted = FALSE
  /\ pc = "idle"
  /\ calls = {PollCall(1)}
  /\ candidateSpaces = <<>>
  /\ spaceIdx = 0
  /\ attempt = 0
  /\ lastErr = JNull
  /\ result = Undef
  /\ frame = 0
  /\ loops = << [job |-> JobIdOf(1), pc |-> "fetch", cancelled |-> FALSE,
                 trace |-> <<>>, sets |-> 0] >>
  /\ \E out \in OutputShapes :
       jobs = << [status |-> "succeeded", error |-> Null, output |-> out] >>
  /\ nAttempts = 0
  /\ failedOp = ""
  /\ sawOverload = FALSE
  /\ nSuccess = 0
  /\ nSetVideo = 0
  /\ fnArg = NoCall
  /\ fnRet = NoCall

\* the response to the request: GET applies pickVideoUrl to the output
NextGet ==
  \/ \E i \in DOMAIN loops : PollSucceeded(i)
  \/ \E i \in DOMAIN loops : PollSucceededNoUrl(i)

SpecGet == InitPolling /\ [][NextGet]_vars

----------------------------------------------------------------------------
(* The functions and the route handlers called on their own *)

sessionVars == <<uiVars, outVars, aborted, pc, calls, hfVars, frame, loops, jobs, nSetVideo>>

\* the page as loaded, nothing started
IdleSession ==
  /\ provider = "local"
  /\ hfSpaceId = HF_SPACES[1]
  /\ hfResizeEnabled = TRUE
  /\ imageFile = FALSE
  /\ prompt = "Make the scene subtly come alive with natural motion."
  /\ durationSec = 4
  /\ status = ""
  /\ error = Null
  /\ jobId = Null
  /\ videoUrl = Null
  /\ isRunning = FALSE
  /\ aborted = FALSE
  /\ pc = "idle"
  /\ calls = {}
  /\ candidateSpaces = <<>>
  /\ spaceIdx = 0
  /\ attempt = 0
  /\ lastErr = JNull
  /\ frame = 0
  /\ loops = <<>>
  /\ jobs = <<>>
  /\ result = Undef
  /\ nAttempts = 0
  /\ failedOp = ""
  /\ sawOverload = FALSE
  /\ nSuccess = 0
  /\ nSetVideo = 0

\* properties an Input schema may declare: name and description of the property
SchemaFields ==
  { <<"prompt", Obj([type |-> Str("string")])>>,
    <<"caption", Obj([title |-> Str("Prompt"), type |-> Str("string")])>>,
    <<"text", Obj([description |-> Str("A prompt"), type |-> Str("string")])>>,
    <<"ref_image", Obj([type |-> Str("string"), format |-> Str("uri")])>>,
    <<"image", Obj([format |-> Str("uri")])>>,
    <<"start", Obj([description |-> Str("An IMAGE"), type |-> Str("string")])>>,
    <<"file", Obj([type |-> Str("string"), format |-> Str("uri")])>>,
    <<"clip", Obj([title |-> Str("Duration"), type |-> Str("integer")])>>,
    <<"len", Obj([title |-> Str("In seconds")])>>,
    <<"video_length", Obj([type |-> Str("integer")])>>,
    <<"seed", Obj([type |-> Str("integer")])>>,
    <<"task", Obj([enum |-> Arr(<<Num(2), Str("Image-to-Video"), Str("i2v")>>)])>>,
    <<"image_mode", Obj([type |-> Str("string"), enum |-> Arr(<<Str("image"), Str("video")>>)])>>,
    <<"7", Obj([title |-> Str("Prompt image"), type |-> Str("string")])>> }

\* the declarations of up to MaxFields properties with different names
FieldLists ==
  UNION { {fs \in [1..n -> SchemaFields] :
             \A i, j \in 1..n : i # j => fs[i][1] # fs[j][1]} : n \in 0..MaxFields }

propertiesOf(fs) ==
  ObjK([i \in 1..Len(fs) |-> fs[i][1]],
       [k \in {fs[i][1] : i \in 1..Len(fs)} |-> (CHOOSE f \in {fs[i] : i \in 1..Len(fs)} : f[1] = k)[2]])

\* the required sections a schema with these properties may have
RequiredLists(fs) ==
  { <<>>, [i \in 1..Len(fs) |-> Str(fs[i][1])], <<Str("guidance")>> }
    \cup {<<Str(fs[i][1])>> : i \in 1..Len(fs)}

\* the Input schemas: with both sections, with properties only
InputSchemas ==
  UNION { {Obj([properties |-> propertiesOf(fs), required |-> Arr(req)]) : req \in RequiredLists(fs)}
            \cup {Obj([properties |-> propertiesOf(fs)])} : fs \in FieldLists }

\* the schema descriptions: around an Input schema, or lacking one
OpenApis ==
  {Obj([components |-> Obj([schemas |-> Obj([Input |-> i])])]) : i \in InputSchemas}
    \cup { Undef, JNull, Obj(<<>>),
           Obj([components |-> Obj(<<>>)]),
           Obj([components |-> Obj([schemas |-> Obj(<<>>)])]),
           Obj([components |-> Obj([schemas |-> Obj([Input |-> JNull])])]),
           Obj([components |-> Obj([schemas |-> Obj([Input |-> Obj(<<>>)])])]),
           Obj([components |-> Obj([schemas |-> Obj([Input |->
                  Obj([required |-> Arr(<<Str("image")>>)])])])]) }

InitResolve ==
  /\ IdleSession
  /\ fnArg \in {[t |-> "resolveInputKeys", openapi |-> o] : o \in OpenApis}
  /\ fnRet = NoCall

CallResolveInputKeys ==
  /\ fnArg.t = "resolveInputKeys"
  /\ fnRet = NoCall
  /\ fnRet' = resolveInputKeys(fnArg.openapi)
  /\ UNCHANGED <<sessionVars, fnArg>>

NextResolve == CallResolveInputKeys

SpecResolve == InitResolve /\ [][NextResolve]_vars

\* a call that throws an Error with a message
Rejected(message) == [t |-> "thrown", e |-> ErrorOf(message)]

\* a form that POST accepts
GoodForm ==
  [image |-> File, prompt |-> Str("Waves roll in"), camera |-> Str("push_in"),
   durationSec |-> Str("4"), style |-> JNull, motionIntensity |-> Str("subtle"),
   seed |-> Str("42")]

\* forms that differ from GoodForm in one field
Forms ==
  {GoodForm}
    \cup {[GoodForm EXCEPT !.image = v] : v \in {JNull, Str("photo.png")}}
    \cup {[GoodForm EXCEPT !.prompt = v] : v \in {JNull, Str("Hi")}}
    \cup {[GoodForm EXCEPT !.durationSec = v] : v \in {JNull, Str("9"), Str("soon"), Str("")}}
    \cup {[GoodForm EXCEPT !.motionIntensity = v] : v \in {JNull, Str("wild")}}
    \cup {[GoodForm EXCEPT !.seed = v] : v \in {JNull, Str("7up"), Str("none")}}

\* the latest_version of a model whose schema is openapi
VersionWith(openapi) == Obj([id |-> Str("v1"), openapi_schema |-> openapi])

\* the answers of models.get: a model for every schema description, a model
\* whose version has no schema, a model without latest_version, a failure
Models ==
  {Obj([latest_version |-> VersionWith(o)]) : o \in OpenApis \ {Undef}}
    \cup { Obj([latest_version |-> Obj([id |-> Str("v1")])]),
           Obj(<<>>),
           Rejected("Model not found") }

\* an environment in which POST goes through
GoodEnv ==
  [token |-> Str("r8_token"), version |-> Undef, owner |-> "minimax", name |-> "video-01-director",
   model |-> Obj([latest_version |-> Obj([id |-> Str("v1")])]),
   create |-> Obj([id |-> Str("pred-1"), status |-> Str("starting"),
                   created_at |-> Str("2024-01-01T00:00:00Z")])]

Envs ==
  {[GoodEnv EXCEPT !.model = m] : m \in Models}
    \cup {[GoodEnv EXCEPT !.model = m, !.version = Str("pinned")] :
            m \in {Obj(<<>>), Obj([latest_version |-> VersionWith(Obj(<<>>))])}}
    \cup {[GoodEnv EXCEPT !.token = v] : v \in {Undef, Str("")}}
    \cup {[GoodEnv EXCEPT !.create = Rejected("Invalid input")]}

\* the requests: every environment with the good form, every form with the
\* good environment
PostCalls ==
  {[t |-> "POST", form |-> GoodForm, env |-> e] : e \in Envs}
    \cup {[t |-> "POST", form |-> f, env |-> GoodEnv] : f \in Forms}

InitPost ==
  /\ IdleSession
  /\ fnArg \in PostCalls
  /\ fnRet = NoCall

CallPost ==
  /\ fnArg.t = "POST"
  /\ fnRet = NoCall
  /\ fnRet' = POST(fnArg.form, fnArg.env)
  /\ UNCHANGED <<sessionVars, fnArg>>

NextPost == CallPost

SpecPost == InitPost /\ [][NextPost]_vars

\* a parameter of an endpoint
Param(name, component) == Obj([parameter_name |-> Str(name), component |-> Str(component)])

\* what the API description may say about an endpoint
EndpointInfos ==
  { Obj([parameters |-> Arr(<<Param("image", "Image"), Param("prompt", "Textbox")>>)]),
    Obj([parameters |-> Arr(<<Param("seed", "Number")>>)]),
    Obj([parameters |-> Arr(<<Param("Negative_Prompt", "Dropdown"), Param("steps", "Slider")>>)]),
    Obj([parameters |-> Arr(<<Param("input", "Image"), Obj([component |-> Str("Textbox")]),
                              Param("Duration_Seconds", "Slider"), Param("steps", "Slider")>>)]),
    Obj([parameters |-> Arr(<<Param("duration", "Slider")>>)]),
    Obj(<<>>) }

EndpointNames == {"/predict", "/generate"}

\* the keys of unnamed_endpoints
EndpointKeys == {"0", "1", "fn"}

\* the endpoint sections with n entries under keys of K, in any declared order
Sections(K, n) ==
  UNION { {ObjK(ks, f) : f \in [{ks[i] : i \in 1..n} -> EndpointInfos]} :
          ks \in {q \in [1..n -> K] : \A i, j \in 1..n : i # j => q[i] # q[j]} }

\* the API descriptions with at most MaxEndpoints endpoints
Apis ==
  UNION { UNION { {Obj([named_endpoints |-> a, unnamed_endpoints |-> b]) :
                     a \in Sections(EndpointNames, n), b \in Sections(EndpointKeys, u)} :
                  u \in {v \in 0..Cardinality(EndpointKeys) : n + v <= MaxEndpoints} } :
          n \in 0..Cardinality(EndpointNames) }
    \cup { Undef, Obj(<<>>),
           Obj([named_endpoints |-> ObjK(<<"/run">>, [x \in {"/run"} |->
                   Obj([parameters |-> Arr(<<Param("seed", "Number")>>)])])]) }

InitPick ==
  /\ IdleSession
  /\ fnArg \in {[t |-> "pickBestEndpoint", api |-> a] : a \in Apis}
  /\ fnRet = NoCall

CallPickBestEndpoint ==
  /\ fnArg.t = "pickBestEndpoint"
  /\ fnRet = NoCall
  /\ fnRet' = pickBestEndpoint(fnArg.api)
  /\ UNCHANGED <<sessionVars, fnArg>>

NextPick == CallPickBestEndpoint

SpecPick == InitPick /\ [][NextPick]_vars

\* the parameters an endpoint may declare
MaxParams == 2

\* a parameter with its name and, when it has one, its default
ParamOf(name) == Obj([parameter_name |-> Str(name)])
ParamWithDefault(name, default) ==
  Obj([parameter_name |-> Str(name), parameter_has_default |-> Bool(TRUE),
       parameter_default |-> default])

PayloadParams ==
  { ParamOf("image"), ParamWithDefault("Input_Image", JNull),
    ParamOf("prompt"), ParamWithDefault("Text Prompt", Str("a video")),
    ParamWithDefault("negative_prompt", Str("")), ParamOf("Negative"),
    ParamWithDefault("duration_seconds", Num(3)),
    ParamWithDefault("steps", Num(6)),
    ParamWithDefault("guidance_scale", Num(1)),
    ParamWithDefault("seed", Num(0)), ParamWithDefault("Seed", Num(7)),
    ParamWithDefault("randomize_seed", Bool(FALSE)),
    ParamWithDefault("fps", Num(16)), ParamOf("sampler"),
    Obj([parameter_has_default |-> Bool(FALSE), parameter_default |-> Num(1)]) }

ParamLists == UNION {[1..n -> PayloadParams] : n \in 0..MaxParams}

\* the texts a user may have typed
UserPrompts == {"", "Hi", "Waves roll in", "A cat. It yawns", "[Zoom in] 9-second shot"}

GivenDurations == {0, 1, 2, 3, 4, 5, 6, 7, 10}

Intensities == {"subtle", "medium", "strong"}

\* camera moves of the page and of lib/prompt
CameraMoves == {"none", "push_in", "orbit_left", "static"}

\* the controls of the page an attempt reads
GoodUi ==
  [prompt |-> "Waves roll in", motionIntensity |-> "medium", durationSec |-> 5,
   cameraMove |-> "push_in", hfResizeEnabled |-> TRUE]

ComposeCalls ==
  {[t |-> "buildDirectorPrompt",
    args |-> [userPrompt |-> u, camera |-> c, durationSec |-> d, style |-> st, motionIntensity |-> m]] :
     u \in UserPrompts, c \in {"push_in", "static"}, d \in GivenDurations,
     st \in {"cinematic", "retro"}, m \in {"subtle", "strong"}}
  \cup
  {[t |-> "buildHfPrompt",
    opts |-> [userPrompt |-> u, motionIntensity |-> m, durationSec |-> d, cameraMove |-> c]] :
     u \in UserPrompts, m \in {"subtle", "medium"}, d \in GivenDurations, c \in {"none", "orbit_left"}}
  \cup
  {[t |-> "attemptPayload", params |-> ps, attempt |-> a, ui |-> GoodUi] :
     ps \in ParamLists, a \in 0..2}
  \cup
  {[t |-> "attemptPayload",
    params |-> <<ParamOf("image"), ParamOf("prompt"), ParamOf("duration"), ParamOf("steps")>>,
    attempt |-> a,
    ui |-> [prompt |-> u, motionIntensity |-> m, durationSec |-> d, cameraMove |-> "none",
            hfResizeEnabled |-> r]] :
     a \in 0..2, u \in {"Hi", "Waves roll in"}, m \in Intensities, d \in GivenDurations, r \in BOOLEAN}

InitCompose ==
  /\ IdleSession
  /\ fnArg \in ComposeCalls
  /\ fnRet = NoCall

CallBuildDirectorPrompt ==
  /\ fnArg.t = "buildDirectorPrompt"
  /\ fnRet = NoCall
  /\ fnRet' = Str(buildDirectorPrompt(fnArg.args))
  /\ UNCHANGED <<sessionVars, fnArg>>

CallBuildHfPrompt ==
  /\ fnArg.t = "buildHfPrompt"
  /\ fnRet = NoCall
  /\ fnRet' = Str(buildHfPrompt(fnArg.opts))
  /\ UNCHANGED <<sessionVars, fnArg>>

CallAttemptPayload ==
  /\ fnArg.t = "attemptPayload"
  /\ fnRet = NoCall
  /\ fnRet' = attemptPayload(fnArg.params, fnArg.attempt, fnArg.ui)
  /\ UNCHANGED <<sessionVars, fnArg>>

NextCompose == CallBuildDirectorPrompt \/ CallBuildHfPrompt \/ CallAttemptPayload

SpecCompose == InitCompose /\ [][NextCompose]_vars

----------------------------------------------------------------------------
(* Properties of startHuggingFace *)

\* an attempt is in flight: one of its awaited operations has not settled
AttemptActive == \E c \in GenCalls : c.op \in AttemptOps

\* the 800 ms pause before the next profile is pending
RetryPending == \E c \in GenCalls : c.op = "sleep800"

\* this step is the failure of the attempt in flight
AttemptFails ==
  /\ AttemptActive
  /\ nSuccess' = nSuccess
  /\ nAttempts' # nAttempts \/ ~AttemptActive'

\* the overload keywords as the specification lists them
OverloadKeywords ==
  { "gpu task aborted", "zerogpu worker error", "insufficient gpu",
    "insufficient gpu time", "quota", "requested", "timed out", "overloaded" }

MentionsOverload(msg) == \E k \in OverloadKeywords : includes(toLowerCase(msg), k)

\* startHuggingFace has thrown the error that follows its loops
ExhaustedNow == pc = "idle" /\ error # Null /\ startsWith(error, ExhaustedPrefix)

C1_Step ==
  AttemptFails /\ ~MentionsOverload(MsgOf(lastErr')) =>
    /\ ~RetryPending'
    /\ IF AttemptActive'
       THEN spaceIdx' = spaceIdx + 1 /\ attempt' = 0 /\ nAttempts' = nAttempts + 1
       ELSE pc' = "idle"

C1_OnePerCandidate ==
  /\ ~sawOverload => attempt = 0 /\ nAttempts = spaceIdx
  /\ ExhaustedNow /\ ~sawOverload /\ ~aborted => nAttempts = Len(candidateSpaces)

\* C1: an attempt that fails with a message matching no overload keyword is
\* followed by no pause and no further profile on its candidate: the next
\* attempt, if any, is profile 0 of the next candidate; as long as no failure
\* of the dispatch mentioned an overload keyword, the attempts made are one per
\* candidate visited, and a dispatch that runs out of candidates this way made
\* exactly one attempt per candidate.
C1_NonOverloadAbandonsCandidate == [][C1_Step]_vars /\ []C1_OnePerCandidate

\* every candidate of a five-candidate list failed once, none with an overload message
C1_Witness ==
  /\ ExhaustedNow
  /\ ~sawOverload
  /\ ~aborted
  /\ Len(candidateSpaces) = 5
  /\ nAttempts = 5
  /\ ~MentionsOverload(lastMsg(lastErr))

C2_Step ==
  /\ AttemptFails /\ MentionsOverload(MsgOf(lastErr')) =>
       /\ RetryPending'
       /\ nAttempts' = nAttempts
       /\ <<spaceIdx', attempt'>> = <<spaceIdx, attempt>>
  /\ RetryPending /\ ~RetryPending' =>
       IF AttemptActive'
       THEN /\ nAttempts' = nAttempts + 1
            /\ <<spaceIdx', attempt'>> =
                 IF attempt + 1 < NumProfiles
                 THEN <<spaceIdx, attempt + 1>>
                 ELSE <<spaceIdx + 1, 0>>
       ELSE pc' = "idle"

\* C2: an attempt on (c, p) that fails with a message containing one of the
\* eight overload keywords, whatever its letter case, is followed by the pause
\* and then by the attempt (c, p + 1) when p is not the last profile, otherwise
\* by (c + 1, 0); the pair (c, p) itself is not attempted again.
C2_OverloadTriesNextProfile == [][C2_Step]_vars

\* candidate 1 failed its three profiles with overload messages, candidate 2 is being tried
C2_Witness ==
  /\ AttemptActive
  /\ spaceIdx = 2
  /\ attempt = 0
  /\ nAttempts = 4
  /\ MentionsOverload(lastMsg(lastErr))

\* the URL each result of predict carries, as the specification reads the result
C3_UrlOf(res) ==
  IF res = Obj([data |-> Arr(<<Obj([url |-> Str("https://hf.space/file=out.mp4")])>>)])
  THEN "https://hf.space/file=out.mp4"
  ELSE IF res = Obj([data |-> Arr(<<JNull, Obj([video |-> Obj([path |-> Str("https://hf.space/v.mp4")])])>>)])
  THEN "https://hf.space/v.mp4"
  ELSE IF res = Str("https://hf.space/direct.mp4")
  THEN "https://hf.space/direct.mp4"
  ELSE Null

\* C3: a dispatch has at most one invocation that returns a video URL; once it
\* has one, startHuggingFace has returned: nothing it awaits is pending, so no
\* connect, view_api or predict call follows, the session is not running and
\* videoUrl is the URL carried by that invocation's result.
C3_EndsAtFirstSuccess ==
  /\ nSuccess <= 1
  /\ nSuccess = 1 =>
       /\ pc = "idle"
       /\ GenCalls = {}
       /\ ~isRunning
       /\ C3_UrlOf(result) # Null
       /\ videoUrl = C3_UrlOf(result)

\* candidate 1 failed all three profiles, candidate 2 succeeded on its second profile
C3_Witness ==
  /\ nSuccess = 1
  /\ spaceIdx = 2
  /\ attempt = 1
  /\ nAttempts = 5
  /\ videoUrl = "https://hf.space/file=out.mp4"

\* C4: the error that follows the loops is raised only when every candidate of
\* the list has been attempted and abandoned, and its message contains the
\* message of the last failed attempt and the list of mitigations.
C4_ExhaustionAfterAllCandidates ==
  ExhaustedNow =>
    /\ spaceIdx = Len(candidateSpaces)
    /\ nAttempts >= Len(candidateSpaces)
    /\ lastErr # JNull
    /\ includes(error, MsgOf(lastErr))
    /\ includes(error, "Try: (1) duration 2-4s, (2) Motion=Subtle")

\* C5: no failure of Client.connect or view_api leads to a retry of the same
\* candidate with another profile, whatever its message.
C5_ConnectFailureNeverRetried == failedOp \notin {"connect", "view_api"}

\* the list Set insertion order gives for the selection sel
C6_Expected(sel) ==
  IF sel = "" THEN HF_SPACES
  ELSE <<sel>> \o SelectSeq(HF_SPACES, LAMBDA x : x # sel)

C6_List ==
  pc = "hf" =>
    /\ candidateSpaces = C6_Expected(hfSpaceId)
    /\ \A i, j \in DOMAIN candidateSpaces : i # j => candidateSpaces[i] # candidateSpaces[j]
    /\ hfSpaceId # "" => candidateSpaces[1] = hfSpaceId
    /\ \A c \in GenCalls : c.op \in AttemptOps =>
         c.ci = spaceIdx /\ spaceIdx \in DOMAIN candidateSpaces

C6_Step ==
  /\ nAttempts = 0 /\ nAttempts' = 1 => spaceIdx' = 1
  /\ nAttempts' = nAttempts + 1 => spaceIdx' >= spaceIdx

\* C6: during a dispatch the candidate list is the selected Space followed by
\* HF_SPACES in its order without the selected Space, no identifier occurring
\* twice; the first attempt is on position 1, the selected Space, and the
\* position only moves forward, so no identifier is visited at two positions.
C6_CandidateOrder == []C6_List /\ [][C6_Step]_vars

\* the selected Space is the third of HF_SPACES; the dispatch has reached the last candidate
C6_Witness ==
  /\ pc = "hf"
  /\ hfSpaceId = HF_SPACES[3]
  /\ candidateSpaces = <<HF_SPACES[3], HF_SPACES[1], HF_SPACES[2], HF_SPACES[4]>>
  /\ AttemptActive
  /\ spaceIdx = 4

C7_Sequential ==
  /\ Cardinality(GenCalls) <= 1
  /\ \A c \in GenCalls : c.op \in AttemptOps => <<c.ci, c.attempt>> = <<spaceIdx, attempt>>
  /\ nAttempts <= Len(candidateSpaces) * NumProfiles

C7_Step ==
  nAttempts' = nAttempts + 1 =>
    IF nAttempts = 0
    THEN <<spaceIdx', attempt'>> = <<1, 0>>
    ELSE \/ spaceIdx' > spaceIdx
         \/ spaceIdx' = spaceIdx /\ attempt' > attempt

\* C7: a dispatch awaits at most one operation at a time, the one of the
\* current (candidate, profile) attempt; each new attempt is on a pair
\* strictly greater, in (candidate, profile) order, than the one before, so
\* the attempts never outnumber candidates x profiles; and when every awaited
\* call settles, a running dispatch ends.
C7_SequentialOrderedBounded ==
  /\ []C7_Sequential
  /\ [][C7_Step]_vars
  /\ (pc = "hf") ~> (pc = "idle")

\* a dispatch over five candidates ended after attempting all fifteen pairs
C7_Witness ==
  /\ ExhaustedNow
  /\ Len(candidateSpaces) = 5
  /\ nAttempts = 5 * NumProfiles
  /\ spaceIdx = 5
  /\ attempt = 2

\* predict returns in this step and no URL is found in what it returned
C35_NoUrl ==
  /\ \E c \in GenCalls : c.op = "predict" /\ c \notin calls'
  /\ nSuccess' = nSuccess
  /\ lastErr' = ErrorOf(NoUrlMessage)

C35_Step ==
  C35_NoUrl =>
    /\ nSetVideo' = nSetVideo
    /\ videoUrl' = Null
    /\ status' # "Done (ok)"
    /\ ~RetryPending'
    /\ IF ~aborted /\ spaceIdx < Len(candidateSpaces)
       THEN /\ Call("connect", spaceIdx + 1, 0, 0) \in calls'
            /\ spaceIdx' = spaceIdx + 1
            /\ attempt' = 0
            /\ isRunning'
            /\ error' = Null
       ELSE /\ ExhaustedNow'
            /\ ~isRunning'
            /\ includes(error', NoUrlMessage)

\* C35: when predict returns a result in which no video URL is found, no
\* video URL is set and no success is reported, no pause and no further
\* profile follows on that candidate, and the next candidate is connected to
\* with profile 0; after the last candidate, or once the flag is set, the
\* dispatch ends with the exhaustion error, which quotes the message.
C35_NoUrlAbandonsCandidate == [][C35_Step]_vars

\* the first candidate returned a result without URL; the second is being tried
C35_Witness ==
  /\ lastErr = ErrorOf(NoUrlMessage)
  /\ AttemptActive
  /\ spaceIdx = 2
  /\ attempt = 0
  /\ nAttempts = 2
  /\ ~aborted
  /\ isRunning
  /\ videoUrl = Null

----------------------------------------------------------------------------
(* Properties of cancellation and of pollReplicate *)

C8_Step ==
  aborted =>
    /\ nAttempts' = nAttempts
    /\ {c \in calls' : c.op \in {"connect", "poll"}} \subseteq calls

\* C8: once abortRef.current.aborted is set, the operations already awaited
\* may settle, but no step issues a new poll request and no step begins a new
\* (candidate, profile) attempt.
C8_NothingBeginsAfterAbort == [][C8_Step]_vars

\* a polling loop ended by the flag while its prediction was still not finished
C8_Witness ==
  /\ aborted
  /\ \E i \in DOMAIN loops :
       /\ loops[i].pc = "done"
       /\ Len(loops[i].trace) > 0
       /\ loops[i].trace[Len(loops[i].trace)] \in {"starting", "processing"}
       /\ jobs[JobOf(loops[i].job)].status \notin TerminalStatuses

C9_LastHeard(i) ==
  IF Len(loops[i].trace) = 0 THEN "" ELSE loops[i].trace[Len(loops[i].trace)]

C9_Loops ==
  \A i \in DOMAIN loops :
    /\ C9_LastHeard(i) \in {"succeeded", "failed", "canceled"} =>
         /\ loops[i].pc = "done"
         /\ \A c \in calls : c.loop # i
    /\ C9_LastHeard(i) \in {"starting", "processing"} =>
         IF loops[i].pc = "done"
         THEN aborted /\ \A c \in calls : c.loop # i
         ELSE Cardinality({c \in calls : c.loop = i}) = 1

C9_Step ==
  \A i \in DOMAIN loops :
    /\ loops[i].pc = "done" => loops'[i].pc = "done" /\ PollCall(i) \notin calls'
    /\ Call("sleep1500", 0, 0, i) \in calls /\ Call("sleep1500", 0, 0, i) \notin calls' =>
         IF aborted THEN loops'[i].pc = "done" ELSE PollCall(i) \in calls'

\* C9: a polling loop whose last response reported succeeded, failed or
\* canceled has ended and issues no request again; a loop whose last response
\* reported another status is either pausing or fetching, ends only by the
\* cancellation flag, and at the end of each pause issues the next request
\* unless the flag is set, with no count of the requests made.
C9_PollUntilTerminal == []C9_Loops /\ [][C9_Step]_vars

\* a loop that heard two non-terminal statuses is fetching again
C9_Witness ==
  \E i \in DOMAIN loops :
    /\ loops[i].trace = <<"starting", "processing">>
    /\ PollCall(i) \in calls
    /\ ~aborted

\* the URL of each output, as the specification reads the output
C10_UrlOf(out) ==
  IF out = Str("https://x/video.mp4") THEN "https://x/video.mp4"
  ELSE IF out = Arr(<<Obj([url |-> Fn(Str("https://x/file.mp4"))])>>) THEN "https://x/file.mp4"
  ELSE Null

\* the session polls one prediction, and its responses reported this sequence
C10_Case ==
  /\ Len(loops) = 1
  /\ ~loops[1].cancelled
  /\ loops[1].trace = <<"starting", "processing", "succeeded">>
  /\ C10_UrlOf(jobs[JobOf(loops[1].job)].output) # Null

\* C10: when the responses for the session's prediction reported starting,
\* then processing, then succeeded with output URL u, videoUrl is u, it was
\* set once since the request began, the session is not running and no error
\* is shown.
C10_PollDeliversUrlOnce ==
  C10_Case =>
    /\ videoUrl = C10_UrlOf(jobs[JobOf(loops[1].job)].output)
    /\ nSetVideo = 1
    /\ loops[1].sets = 1
    /\ ~isRunning
    /\ error = Null
    /\ loops[1].pc = "done"

\* the prediction went starting, processing, succeeded with https://x/video.mp4
C10_Witness ==
  /\ C10_Case
  /\ jobs[1].output = Str("https://x/video.mp4")
  /\ videoUrl = "https://x/video.mp4"
  /\ nSetVideo = 1

\* the message pollReplicate throws for a response reporting st with error err
C11_Message(st, err) == IF err # Null THEN err ELSE "Replicate job " \o st \o "."

\* C11: when the last response heard by the session's current polling loop
\* reported failed or canceled, the loop has ended with nothing pending, the
\* session is not running, the error shown contains the remote error text
\* when there is one and otherwise names the status, and there is no video
\* URL.
C11_FailedJobShowsError ==
  \A i \in DOMAIN loops :
    ~loops[i].cancelled /\ C9_LastHeard(i) \in {"failed", "canceled"} =>
      /\ loops[i].pc = "done"
      /\ \A c \in calls : c.loop # i
      /\ ~isRunning
      /\ error # Null
      /\ LET j == jobs[JobOf(loops[i].job)]
         IN IF j.error # Null
            THEN includes(error, j.error)
            ELSE includes(error, C9_LastHeard(i))
      /\ videoUrl = Null

C12_NoUrl ==
  \A i \in DOMAIN loops :
    /\ C9_LastHeard(i) = "succeeded" =>
         /\ jobs[JobOf(loops[i].job)].status = "succeeded"
         /\ C10_UrlOf(jobs[JobOf(loops[i].job)].output) = Null =>
              /\ loops[i].pc = "done"
              /\ \A c \in calls : c.loop # i
              /\ loops[i].sets = 0
              /\ ~loops[i].cancelled =>
                   /\ ~isRunning
                   /\ error = "Replicate succeeded but no output video URL found."

C12_Step ==
  \A i \in DOMAIN loops :
    /\ PollCall(i) \in calls
    /\ PollCall(i) \notin calls'
    /\ Len(loops'[i].trace) > 0
    /\ loops'[i].trace[Len(loops'[i].trace)] \in {"starting", "processing"}
    => /\ jobs[JobOf(loops[i].job)].output = Undef
       /\ Call("sleep1500", 0, 0, i) \in calls'
       /\ loops'[i].pc = "sleep"
       /\ loops'[i].sets = loops[i].sets
       /\ UNCHANGED <<error, isRunning, videoUrl>>

----------------------------------------------------------------------------
(* Properties of pickVideoUrl *)

\* the value is absent
C13_Absent(v) == v \in {Undef, JNull, Str(""), Num(0), Bool(FALSE)}

\* the url an object exposes: a string, or what calling it returns, as a string
C13_UrlOf(v) ==
  IF v.t # "obj" \/ "url" \notin DOMAIN v.f THEN Null
  ELSE IF v.f.url.t = "str" THEN v.f.url.s
  ELSE IF v.f.url.t = "fn" THEN JsString(v.f.url.ret)
  ELSE Null

\* what the documented shapes yield
C13_Expected(out) ==
  IF C13_Absent(out) THEN Null
  ELSE IF out.t = "str" THEN out.s
  ELSE IF out.t = "arr"
  THEN IF out.items = <<>> THEN Null
       ELSE IF C13_Absent(out.items[1]) THEN Null
       ELSE IF out.items[1].t = "str" THEN out.items[1].s
       ELSE C13_UrlOf(out.items[1])
  ELSE C13_UrlOf(out)

\* C13: the output_url that GET answers for a prediction is the plain string
\* when the output is one, the first element or the first element's url when
\* it is an array, the object's url when it is an object (a callable url is
\* called), and null for every other output, the empty array and the absent
\* output included; the session then shows exactly this URL, or the
\* no-output error when there is none.
C13_PickVideoUrlShapes ==
  /\ GET(1).output_url = C13_Expected(jobs[1].output)
  /\ loops[1].pc = "done" =>
       IF C13_Expected(jobs[1].output) \in {Null, ""}
       THEN videoUrl = Null /\ error = "Replicate succeeded but no output video URL found."
       ELSE videoUrl = C13_Expected(jobs[1].output) /\ error = Null

\* an array whose first element exposes a callable url, followed by a plain string
C13_Witness ==
  /\ jobs[1].output = Arr(<<Obj([url |-> Fn(Str("https://x/d.mp4"))]), Str("https://x/a.mp4")>>)
  /\ loops[1].pc = "done"
  /\ videoUrl = "https://x/d.mp4"

-----------------------------------------------------------------------------
(* Properties of POST /api/predict *)

\* POST has been called and has answered
C14_Answered == fnArg.t = "POST" /\ fnRet # NoCall

\* the schema of the model the request is for, if it publishes one
C14_Schema == Field(Field(fnArg.env.model, "latest_version"), "openapi_schema")

\* the image field resolved for the request: from the schema, "image" for a
\* model without schema
C14_ImageField ==
  IF C14_Schema.t \in {"undefined", "null"} THEN Str("image")
  ELSE resolveInputKeys(C14_Schema).imageKey

\* C14: a request for which no image field is resolved is answered with an
\* error and no prediction is created; a prediction is created at most once,
\* only when an image field is resolved, and its input then has the uploaded
\* image under that field.
C14_NoImageFieldNoJob ==
  C14_Answered =>
    /\ Len(fnRet.created) <= 1
    /\ fnRet.created # <<>> =>
         /\ C14_ImageField # Undef
         /\ C14_ImageField.s \in DOMAIN fnRet.created[1].input
         /\ fnRet.created[1].input[C14_ImageField.s] = imageBuffer
    /\ C14_ImageField = Undef =>
         /\ fnRet.created = <<>>
         /\ fnRet.response.status >= 400
         /\ "error" \in DOMAIN fnRet.response.body.f
         /\ ~JsFalsy(fnRet.response.body.f.error)

\* a valid request for a model whose schema has a prompt and a seed only
C14_Witness ==
  /\ C14_Answered
  /\ fnArg.form = GoodForm
  /\ C14_Schema # Undef
  /\ C14_ImageField = Undef
  /\ resolveInputKeys(C14_Schema).promptKey = Str("caption")
  /\ resolveInputKeys(C14_Schema).seedKey = Str("seed")
  /\ fnRet.created = <<>>
  /\ fnRet.response =
       Response(400, Obj([error |-> Str("This model schema did not expose an image input. Pick a model that supports image-to-video.")]))

\* a valid request for a model with an image field: the prediction created
C14_Created ==
  /\ C14_Answered
  /\ C14_ImageField = Str("ref_image")
  /\ fnRet.response.status = 200
  /\ fnRet.created # <<>>
  /\ fnRet.created[1].input["ref_image"] = imageBuffer
  /\ "caption" \in DOMAIN fnRet.created[1].input
  /\ fnRet.created[1].input["caption"] =
       Str("[Push in] Waves roll in. cinematic lighting, film look, shallow depth of field. subtle motion. 4-second shot.")

-----------------------------------------------------------------------------
(* Properties of pickBestEndpoint *)

\* pickBestEndpoint has been called on an API description and has returned
C20_Returned == fnArg.t = "pickBestEndpoint" /\ fnRet # NoCall

\* the endpoints of one section of the description, as pairs of key and information
C20_Section(name) ==
  IF fnArg.api.t = "obj" /\ name \in DOMAIN fnArg.api.f
  THEN fnArg.api.f[name]
  ELSE ObjK(<<>>, <<>>)

\* the indexed endpoints in ascending order of their index
C20_Indexed ==
  LET sec == C20_Section("unnamed_endpoints")
      idx == {k \in DOMAIN sec.f : k \in {"0", "1", "2", "3"}}
  IN SortIndexKeys(idx)

\* the enumeration: the named endpoints as declared, then the indexed ones
C20_Endpoints ==
  LET named == C20_Section("named_endpoints")
      unnamed == C20_Section("unnamed_endpoints")
  IN [i \in 1..Len(named.keys) |->
        [endpoint |-> Str(named.keys[i]), named |-> TRUE, info |-> named.f[named.keys[i]]]]
     \o [i \in 1..Len(C20_Indexed) |->
        [endpoint |-> Num(IndexVal(C20_Indexed[i])), named |-> FALSE,
         info |-> unnamed.f[C20_Indexed[i]]]]

\* the parameters of an endpoint
C20_Params(e) ==
  IF "parameters" \in DOMAIN e.info.f
  THEN {e.info.f.parameters.items[i] : i \in 1..Len(e.info.f.parameters.items)}
  ELSE {}

\* an attribute of a parameter in lower case, "" when it has none
C20_Text(p, a) == IF a \in DOMAIN p.f THEN toLowerCase(p.f[a].s) ELSE ""

\* the score of an endpoint
C20_Score(e) ==
  (IF \E p \in C20_Params(e) : \/ includes(C20_Text(p, "parameter_name"), "image")
                               \/ includes(C20_Text(p, "component"), "image")
   THEN 5 ELSE 0)
  + (IF \E p \in C20_Params(e) :
          \/ /\ includes(C20_Text(p, "parameter_name"), "prompt")
             /\ ~includes(C20_Text(p, "parameter_name"), "negative")
          \/ includes(C20_Text(p, "component"), "textbox")
     THEN 5 ELSE 0)
  + (IF \E p \in C20_Params(e) : includes(C20_Text(p, "parameter_name"), "duration")
     THEN 2 ELSE 0)
  + (IF \E p \in C20_Params(e) : includes(C20_Text(p, "parameter_name"), "steps")
     THEN 1 ELSE 0)
  + (IF e.named THEN 1 ELSE 0)

\* the names of the parameters of an endpoint
C20_Names(e) == {C20_Text(p, "parameter_name") : p \in C20_Params(e)}

\* C20: the endpoint selected has the greatest score of all endpoints
\* enumerated and is the first of that score in the enumeration, named
\* endpoints before indexed ones; when one endpoint has the parameters image
\* and prompt, an endpoint that has only seed is not selected.
C20_BestEndpoint ==
  C20_Returned /\ C20_Endpoints # <<>> =>
    /\ \E i \in 1..Len(C20_Endpoints) :
         /\ fnRet = C20_Endpoints[i].endpoint
         /\ \A j \in 1..Len(C20_Endpoints) : C20_Score(C20_Endpoints[j]) <= C20_Score(C20_Endpoints[i])
         /\ \A j \in 1..(i - 1) : C20_Score(C20_Endpoints[j]) < C20_Score(C20_Endpoints[i])
    /\ (\E i \in 1..Len(C20_Endpoints) : C20_Names(C20_Endpoints[i]) = {"image", "prompt"})
         => \A j \in 1..Len(C20_Endpoints) :
              C20_Names(C20_Endpoints[j]) = {"seed"} => fnRet # C20_Endpoints[j].endpoint

\* a named endpoint with seed only, enumerated before the indexed endpoint 1
\* with image and prompt: the indexed one is selected
C20_Witness ==
  /\ C20_Returned
  /\ Len(C20_Endpoints) = 2
  /\ C20_Endpoints[1].endpoint = Str("/predict")
  /\ C20_Names(C20_Endpoints[1]) = {"seed"}
  /\ C20_Names(C20_Endpoints[2]) = {"image", "prompt"}
  /\ fnRet = Num(1)

\* two endpoints of score 2, the named one first: the named one is selected
C20_Tie ==
  /\ C20_Returned
  /\ Len(C20_Endpoints) = 2
  /\ C20_Endpoints[1].named /\ ~C20_Endpoints[2].named
  /\ C20_Score(C20_Endpoints[1]) = 2
  /\ C20_Score(C20_Endpoints[2]) = 2
  /\ fnRet = C20_Endpoints[1].endpoint

\* C21: when no enumerated endpoint has a score above zero, also when there
\* is no endpoint at all, the identifier returned is the default "/predict"
\* and none of the enumerated endpoints.
C21_DefaultWhenNothingScores ==
  C20_Returned /\ (\A i \in 1..Len(C20_Endpoints) : C20_Score(C20_Endpoints[i]) = 0) =>
    /\ fnRet = Str("/predict")
    /\ \A i \in 1..Len(C20_Endpoints) : fnRet # C20_Endpoints[i].endpoint

-----------------------------------------------------------------------------
(* Properties of the prompt builders *)

\* one of the two prompt builders has been called and has returned
C22_Returned == fnArg.t \in {"buildDirectorPrompt", "buildHfPrompt"} /\ fnRet # NoCall

\* the user's prompt and the duration given in the call
C22_UserPrompt ==
  IF fnArg.t = "buildDirectorPrompt" THEN fnArg.args.userPrompt ELSE fnArg.opts.userPrompt

C23_Given ==
  IF fnArg.t = "buildDirectorPrompt" THEN fnArg.args.durationSec ELSE fnArg.opts.durationSec

\* C22: the text built by buildDirectorPrompt and by buildHfPrompt contains
\* the user's prompt as given, in one piece.
C22_PromptVerbatim ==
  C22_Returned =>
    \E i \in 1..(Len(fnRet.s) - Len(C22_UserPrompt) + 1) :
      SubSeq(fnRet.s, i, i + Len(C22_UserPrompt) - 1) = C22_UserPrompt

\* buildHfPrompt on a prompt of two sentences
C22_Witness ==
  /\ fnArg.t = "buildHfPrompt"
  /\ fnArg.opts.userPrompt = "A cat. It yawns"
  /\ fnRet # NoCall
  /\ SubSeq(fnRet.s, 1, 17) = "A cat. It yawns. "

\* the text names n seconds as its duration
C23_Embeds(n) ==
  IF fnArg.t = "buildDirectorPrompt"
  THEN SubSeq(fnRet.s, Len(fnRet.s) - Len(ToString(n) \o "-second shot.") + 1, Len(fnRet.s))
         = ToString(n) \o "-second shot."
       /\ SubSeq(fnRet.s, Len(fnRet.s) - Len(ToString(n) \o "-second shot.") - 1,
                 Len(fnRet.s) - Len(ToString(n) \o "-second shot.")) = ". "
  ELSE includes(fnRet.s, ". Duration ~" \o ToString(n) \o "s. Smooth, cinematic animation.")

C23_Attempted == fnArg.t = "attemptPayload" /\ fnRet # NoCall

\* the prompts among the values of the payload of an attempt
C23_PayloadPrompts ==
  {fnRet.payload[k].s : k \in {x \in DOMAIN fnRet.payload :
                                 /\ fnRet.payload[x].t = "str"
                                 /\ includes(fnRet.payload[x].s, ". Camera: ")}}

-----------------------------------------------------------------------------
(* Properties of the payload and of the attempt profiles *)

\* the name of a declared parameter, "" when it has none, and the name in lower case
C27_Name(p) == IF "parameter_name" \in DOMAIN p.f THEN p.f.parameter_name.s ELSE ""
C27_Lower(p) == toLowerCase(C27_Name(p))

\* what the payload holds for parameter p
C27_Sent(p) ==
  IF C27_Name(p) \in DOMAIN fnRet.payload THEN fnRet.payload[C27_Name(p)] ELSE Omitted

\* the duration of the profile of attempt a for the form's duration d
C27_Duration(a, d) ==
  LET safe == IF d < 2 THEN 2 ELSE IF d > 6 THEN 6 ELSE d
  IN IF a = 0 THEN safe ELSE IF a = 1 THEN (IF safe < 4 THEN safe ELSE 4) ELSE 2

\* the composed prompt of the attempt in hand
C27_Composed ==
  Str(buildHfPrompt([userPrompt |-> fnArg.ui.prompt,
                     motionIntensity |-> fnArg.ui.motionIntensity,
                     durationSec |-> C27_Duration(fnArg.attempt, fnArg.ui.durationSec),
                     cameraMove |-> fnArg.ui.cameraMove]))

\* p has one of the roles the payload fills from the image and the profile
C27_ImageOrNumeric(p) ==
  \E w \in {"image", "duration", "steps", "guidance"} : includes(C27_Lower(p), w)

C27_Negative(p) == includes(C27_Lower(p), "negative") /\ ~includes(C27_Lower(p), "image")

C27_Prompt(p) ==
  /\ includes(C27_Lower(p), "prompt")
  /\ ~includes(C27_Lower(p), "negative")
  /\ ~includes(C27_Lower(p), "image")

C27_RandomizeSeed(p) ==
  /\ includes(C27_Lower(p), "randomize") /\ includes(C27_Lower(p), "seed")
  /\ ~C27_ImageOrNumeric(p) /\ ~C27_Negative(p) /\ ~C27_Prompt(p)

C27_Remaining(p) ==
  /\ ~C27_ImageOrNumeric(p) /\ ~C27_Negative(p) /\ ~C27_Prompt(p)
  /\ C27_Lower(p) # "seed" /\ ~C27_RandomizeSeed(p)

\* C27: in the payload of an attempt a negative-prompt parameter holds the
\* fixed quality-guard text and not the composed prompt, a prompt parameter
\* holds the text built by buildHfPrompt with the duration of the attempt's
\* profile, a parameter named seed holds 42, a randomize-seed parameter holds
\* true, and every other parameter without a role holds its declared default
\* or, having none, is left out.
C27_PayloadRoles ==
  C23_Attempted =>
    \A i \in 1..Len(fnArg.params) :
      LET p == fnArg.params[i]
      IN /\ C27_Negative(p) =>
              /\ C27_Sent(p) = Str("blurry, low quality, watermark, subtitles, deformed, artifacts")
              /\ C27_Sent(p) # C27_Composed
         /\ C27_Prompt(p) => C27_Sent(p) = C27_Composed
         /\ C27_Lower(p) = "seed" => C27_Sent(p) = Num(42)
         /\ C27_RandomizeSeed(p) => C27_Sent(p) = Bool(TRUE)
         /\ C27_Remaining(p) =>
              IF "parameter_has_default" \in DOMAIN p.f /\ p.f.parameter_has_default = Bool(TRUE)
              THEN C27_Sent(p) = p.f.parameter_default
              ELSE C27_Sent(p) = Omitted

\* the second attempt for an endpoint that declares a prompt and a negative prompt
C27_Witness ==
  /\ C23_Attempted
  /\ fnArg.attempt = 1
  /\ fnArg.params = <<ParamWithDefault("Text Prompt", Str("a video")),
                      ParamWithDefault("negative_prompt", Str(""))>>
  /\ fnRet.payload["Text Prompt"] =
       Str("Waves roll in. moderate, natural motion. Camera: slow push-in (dolly in). Duration ~4s. Smooth, cinematic animation.")
  /\ fnRet.payload["negative_prompt"] =
       Str("blurry, low quality, watermark, subtitles, deformed, artifacts")

\* an endpoint with a parameter that has a default and one that has none
C27_Defaults ==
  /\ C23_Attempted
  /\ fnArg.params = <<ParamWithDefault("fps", Num(16)), ParamOf("sampler")>>
  /\ DOMAIN fnRet.payload = {"fps"}
  /\ fnRet.payload["fps"] = Num(16)

\* what the attempt before the one in hand sends
C28_Previous == attemptPayload(fnArg.params, fnArg.attempt - 1, fnArg.ui)

\* C28: there are three attempt profiles, used by attempts 0, 1 and 2 in this
\* order; the profile of an attempt has a duration within 2..6 and a step
\* count of 3 or more, and its largest image side, its duration and its step
\* count are at most those of the attempt before.
C28_ProfilesNoMoreExpensive ==
  C23_Attempted =>
    /\ \A d \in 2..6, r \in BOOLEAN : Len(attemptProfiles(d, r)) = 3
    /\ fnArg.attempt \in 0..2
    /\ fnRet.prof.duration \in 2..6
    /\ fnRet.steps >= 3
    /\ fnArg.attempt > 0 =>
         /\ fnRet.prof.maxSide <= C28_Previous.prof.maxSide
         /\ fnRet.prof.duration <= C28_Previous.prof.duration
         /\ fnRet.steps <= C28_Previous.steps

\* the third attempt of a form with duration 6, strong motion and resizing:
\* 384 pixels, 2 seconds and 5 steps after 512 pixels, 4 seconds and 5 steps
C28_Witness ==
  /\ C23_Attempted
  /\ fnArg.attempt = 2
  /\ fnArg.ui.durationSec = 6 /\ fnArg.ui.motionIntensity = "strong" /\ fnArg.ui.hfResizeEnabled
  /\ fnRet.prof.maxSide = 384 /\ fnRet.prof.duration = 2 /\ fnRet.steps = 5
  /\ C28_Previous.prof.maxSide = 512 /\ C28_Previous.prof.duration = 4 /\ C28_Previous.steps = 5
  /\ fnRet.payload["steps"] = Num(5)

-----------------------------------------------------------------------------
(* Properties of the form and of onGenerate *)

\* what the form holds is not acceptable: prompt, duration, image
C24_PromptShort == Len(prompt) < 3
C24_DurationOutside == durationSec < 2 \/ durationSec > 6
C24_ImageMissing == ~imageFile

\* a click on Generate that does something: the form is as it was
C24_Click == vars' # vars /\ UNCHANGED uiVars /\ ~isRunning /\ pc = "idle"

C24_Step ==
  C24_Click /\ (C24_PromptShort \/ C24_DurationOutside \/ C24_ImageMissing) =>
    /\ error' # Null
    /\ \/ C24_PromptShort /\ error' = "Please write a prompt (at least 3 characters)."
       \/ C24_DurationOutside /\ includes(error', "Number must be")
       \/ C24_ImageMissing /\ error' = "Please upload an image first."
    /\ isRunning' = FALSE
    /\ pc' = "idle"
    /\ calls' = calls
    /\ jobId' = jobId
    /\ videoUrl' = videoUrl

\* C24: a click on Generate with a prompt of fewer than 3 characters, with a
\* duration outside 2..6 or without an image sets the message of that field
\* and starts nothing: no call is made, isRunning stays false, jobId and the
\* video URL are as before.
C24_InvalidFormStartsNothing == [][C24_Step]_vars

-----------------------------------------------------------------------------
(* Properties of the catch blocks of onGenerate and of the polling effect *)

\* the messages validate() sets, which no dispatch path raises
C25_ValidationMessages ==
  { "Please write a prompt (at least 3 characters).",
    "String must contain at most 500 character(s)",
    "Number must be greater than or equal to 2",
    "Number must be less than or equal to 6",
    "Please upload an image first." }

\* the session shows the error of a dispatch that failed
C25_Failed == error # Null /\ error \notin C25_ValidationMessages

\* C25: while the session shows the error of a failed dispatch it is not
\* running, the error is not empty, and it holds no job id that the polling
\* effect could poll again.
C25_FailureClearsJobState ==
  C25_Failed => ~isRunning /\ error # "" /\ jobId = Null

\* onGenerate returns from startHuggingFace or from the local render
C26_Returns == pc \in {"hf", "local"} /\ pc' = "idle" /\ ~aborted

\* a run of pollReplicate on the prediction of the request in progress
\* delivers, and none has before
C26_JobDelivers ==
  /\ isRunning
  /\ jobId # Null
  /\ \A k \in DOMAIN loops : loops[k].job = jobId => loops[k].sets = 0
  /\ \E i \in DOMAIN loops :
       loops[i].job = jobId /\ loops'[i].sets = 1

\* the error of the request's failed or canceled prediction is shown, and no
\* error was shown before
C26_JobFails ==
  /\ jobId # Null
  /\ jobs[JobOf(jobId)].status \in {"failed", "canceled"}
  /\ error = Null /\ error' # Null

C26_Step ==
  /\ C26_Returns /\ error' = Null => nSetVideo' = 1
  /\ C26_Returns /\ error' # Null => nSetVideo' = 0
  /\ C26_JobDelivers => nSetVideo' = 1
  /\ C26_JobFails => nSetVideo' = 0

\* C26: setVideoUrl has been called with a URL exactly once since the request
\* began when the request completes with a video (onGenerate returns without
\* an error, or the request's prediction is first heard succeeded with a
\* URL), and not at all when the request fails.
C26_OneVideoPerRequest == [][C26_Step]_vars

----------------------------------------------------------------------------
(* Properties of the polling effect *)

\* a run of pollReplicate has a request in flight or is in its 1.5 s pause
C32_Polling(i) == \E c \in calls : c.loop = i /\ c.op \in {"poll", "sleep1500"}

C32_Idle == \A i \in DOMAIN loops : ~C32_Polling(i)

\* a run of pollReplicate begins
C32_Starts == Len(loops') > Len(loops)

\* C32: while isRunning is false no run of pollReplicate is polling, and none
\* begins in a step taken while isRunning is false.
C32_PollsOnlyWhileRunning ==
  [](~isRunning => C32_Idle) /\ [][~isRunning => ~C32_Starts]_vars

\* an awaited operation of loop i settles in this step: the loop runs on
C33_Acts(i) == \E c \in calls : c.loop = i /\ c \notin calls'

C33_Step ==
  \A i \in DOMAIN loops :
    loops[i].cancelled /\ C33_Acts(i) =>
      /\ PollCall(i) \notin calls'
      /\ UNCHANGED <<videoUrl, status, isRunning, error>>

\* C33: a run of pollReplicate whose effect has been cleaned up sends no
\* further request and changes none of videoUrl, status, isRunning and error.
C33_CancelledLoopIsSilent == [][C33_Step]_vars

\* the generation has ended and the session shows its outcome
C36_Settled == ~isRunning /\ (videoUrl # Null \/ error # Null)

\* C36: every generation that onGenerate started leads to a state in which
\* isRunning is false and a video URL or an error is set, also when the
\* flag ends the run of pollReplicate.
C36_GenerationSettles == isRunning ~> C36_Settled

----------------------------------------------------------------------------
(* Properties of generateLocalLiteVideo *)

\* the renderer is between two frames; it has left its loop
C29_Rendering == pc = "local" /\ \E c \in calls : c.op = "frameTimer"
C29_Recorded == pc = "local" /\ \E c \in calls : c.op = "recorderStop"

\* the duration the renderer is given
C29_Duration == IF durationSec < 2 THEN 2 ELSE IF durationSec > 6 THEN 6 ELSE durationSec

\* max(12, round(duration x 24))
C29_Frames == IF 24 * C29_Duration > 12 THEN 24 * C29_Duration ELSE 12

\* the percentage the status shows while rendering, -1 when it shows none
C30_Reported ==
  IF \E n \in 0..100 : status = "Rendering locally... " \o ToString(n) \o "%"
  THEN CHOOSE n \in 0..100 : status = "Rendering locally... " \o ToString(n) \o "%"
  ELSE -1

\* C29: the local renderer draws max(12, round(duration x 24)) frames, 48 for
\* 2 seconds: between frames fewer have been drawn and the status shows the
\* progress of the frame just drawn, and the loop is left after exactly that
\* many.
C29_FrameCount ==
  /\ C29_Rendering => frame < C29_Frames /\ C30_Reported # -1
  /\ C29_Recorded => frame = C29_Frames
  /\ C29_Recorded /\ C29_Duration = 2 => frame = 48

\* every frame of a render drawn: the step from one frame to the next reports anew
C29_Step ==
  C29_Rendering /\ frame' = frame + 1 /\ frame' < C29_Frames => C30_Reported' # -1 /\ C29_Rendering'

C29_FramesAndReports == []C29_FrameCount /\ [][C29_Step]_vars

\* a render of 2 seconds has left its loop after 48 frames
C29_Witness == C29_Recorded /\ durationSec = 2 /\ frame = 48

\* C30 as stated: for a duration within 2..6 the percentage reported is 0 on
\* the first frame, 100 on the last, and greater on every frame than on the
\* frame before.
C30_First == C29_Rendering /\ frame = 0 => C30_Reported = 0
C30_Last == C29_Rendering /\ frame = C29_Frames - 1 => C30_Reported = 100

C30_StrictStep ==
  durationSec \in 2..6 /\ C29_Rendering /\ C29_Rendering' /\ frame' = frame + 1 =>
    C30_Reported' > C30_Reported

C30_PercentStrictlyIncreases == [](C30_First /\ C30_Last) /\ [][C30_StrictStep]_vars

\* C30 amended: the percentage reported is 0 on the first frame, 100 on the
\* last and never less than on the frame before; it is greater on every frame
\* for durations of 2, 3 and 4 seconds, and stays the same on some
\* consecutive frames for 5 and 6 seconds, which have more than 101 frames.
C30_Step ==
  C29_Rendering /\ C29_Rendering' /\ frame' = frame + 1 =>
    /\ C30_Reported' >= C30_Reported
    /\ C30_Reported' <= C30_Reported + 3
    /\ C29_Duration <= 4 => C30_Reported' > C30_Reported

C30_PercentNeverDecreases == [](C30_First /\ C30_Last) /\ [][C30_Step]_vars

\* a render of 6 seconds at its last frame, the frame before being at 99
C30_Witness ==
  /\ C29_Rendering
  /\ durationSec = 6
  /\ frame = 143
  /\ C30_Reported = 100

\* the local render fails: onGenerate's catch block runs while the render is in hand
C31_Fails == pc = "local" /\ error' # Null

C31_Step ==
  C31_Fails =>
    /\ status = "Preparing local (free) render..."
    /\ frame = 0 /\ frame' = 0
    /\ \A c \in calls : c.op # "frameTimer"
    /\ C30_Reported' = -1
    /\ calls' = {}
    /\ pc' = "idle"
    /\ ~isRunning'
    /\ error' # ""
    /\ videoUrl' = Null

\* C31: when the local render fails for want of a decoder, a 2d context or a
\* recorder, it fails while the status still reads "Preparing": no frame has
\* been drawn, no per-frame wait has begun, no percentage was reported, and
\* the session is left not running, with an error and without a video URL.
C31_UnavailableFailsFast == [][C31_Step]_vars

\* the render failed for want of a 2d context
C31_Witness ==
  /\ pc = "idle"
  /\ error = "Canvas not supported in this browser."
  /\ ~isRunning
  /\ videoUrl = Null
  /\ frame = 0
  /\ status = ""

----------------------------------------------------------------------------
(* Properties of resolveInputKeys *)

\* resolveInputKeys has been called on a schema and has returned
C_Returned == fnArg.t = "resolveInputKeys" /\ fnRet # NoCall

\* the properties section of the schema given, when it has one
C_Properties ==
  LET o == fnArg.openapi
  IN IF o.t = "obj" /\ "components" \in DOMAIN o.f
        /\ o.f.components.t = "obj" /\ "schemas" \in DOMAIN o.f.components.f
        /\ o.f.components.f.schemas.t = "obj" /\ "Input" \in DOMAIN o.f.components.f.schemas.f
        /\ o.f.components.f.schemas.f.Input.t = "obj"
        /\ "properties" \in DOMAIN o.f.components.f.schemas.f.Input.f
     THEN o.f.components.f.schemas.f.Input.f.properties
     ELSE ObjK(<<>>, <<>>)

\* the names of the schema's fields in declaration order
C_Declared == C_Properties.keys

\* the names the schema lists as required
C_Required ==
  LET o == fnArg.openapi
  IN IF C_Declared # <<>> /\ "required" \in DOMAIN o.f.components.f.schemas.f.Input.f
     THEN {o.f.components.f.schemas.f.Input.f.required.items[i].s :
             i \in 1..Len(o.f.components.f.schemas.f.Input.f.required.items)}
     ELSE {}

\* attribute a of field k in lower case, "" when the field does not declare it
C_Text(k, a) ==
  IF a \in DOMAIN C_Properties.f[k].f THEN toLowerCase(C_Properties.f[k].f[a].s) ELSE ""

\* the name, the title or the description of field k contains one of the words
C_Mentions(k, words) ==
  \E w \in words : \/ includes(toLowerCase(k), w)
                   \/ includes(C_Text(k, "title"), w)
                   \/ includes(C_Text(k, "description"), w)

\* the first declared field among those of the set accepted
C_First(accepted) ==
  LET hits == {i \in 1..Len(C_Declared) : C_Declared[i] \in accepted}
  IN IF hits = {} THEN Undef
     ELSE Str(C_Declared[CHOOSE i \in hits : \A j \in hits : i <= j])

\* the declared fields
C_Fields == {C_Declared[i] : i \in 1..Len(C_Declared)}

\* C15: the prompt field resolved is the first field, in declaration order,
\* whose name, title or description contains "prompt" whatever the letter
\* case, and the literal "prompt" when there is none.
C15_PromptField ==
  C_Returned =>
    fnRet.promptKey =
      Coalesce(C_First({k \in C_Fields : C_Mentions(k, {"prompt"})}), Str("prompt"))

C16_StringTyped(k) == "type" \in DOMAIN C_Properties.f[k].f /\ C_Properties.f[k].f.type.s = "string"

\* C16: the image field resolved is the first field, in declaration order,
\* that mentions "image" and is declared of type string; failing that, the
\* first required field of format "uri"; failing that, it is absent.
C16_ImageField ==
  C_Returned =>
    fnRet.imageKey =
      Coalesce(C_First({k \in C_Fields : C_Mentions(k, {"image"}) /\ C16_StringTyped(k)}),
               C_First({k \in C_Fields : k \in C_Required /\ C_Text(k, "format") = "uri"}))

\* C17: the duration field resolved is the first field, in declaration order,
\* that mentions "duration" or "seconds"; only when there is none, the first
\* that mentions "video_length" or "length"; failing that, it is absent.
C17_DurationField ==
  C_Returned =>
    fnRet.durationKey =
      Coalesce(C_First({k \in C_Fields : C_Mentions(k, {"duration", "seconds"})}),
               C_First({k \in C_Fields : C_Mentions(k, {"video_length", "length"})}))

\* C18: resolveInputKeys returns a mapping for every schema description, also
\* without components, Input, properties or required; for a schema without
\* fields the prompt field is "prompt", the image, duration and seed fields
\* are absent and there are no extra defaults.
C18_ResolutionNeverFails ==
  C_Returned =>
    /\ fnRet # TypeError
    /\ DOMAIN fnRet = {"promptKey", "imageKey", "durationKey", "seedKey", "extraDefaults"}
    /\ fnRet.promptKey.t = "str"
    /\ C_Declared = <<>> =>
         /\ fnRet.promptKey = Str("prompt")
         /\ fnRet.imageKey = Undef
         /\ fnRet.durationKey = Undef
         /\ fnRet.seedKey = Undef
         /\ DOMAIN fnRet.extraDefaults = {}

\* a schema description whose Input names a required field and declares none
C18_Witness ==
  /\ C_Returned
  /\ fnArg.openapi = Obj([components |-> Obj([schemas |-> Obj([Input |->
                        Obj([required |-> Arr(<<Str("image")>>)])])])])
  /\ fnRet.promptKey = Str("prompt")
  /\ fnRet.imageKey = Undef

\* the enumerated values of field k as strings, in order
C19_Enum(k) ==
  IF k \in DOMAIN C_Properties.f /\ "enum" \in DOMAIN C_Properties.f[k].f
  THEN [i \in 1..Len(C_Properties.f[k].f.enum.items) |->
          JsString(C_Properties.f[k].f.enum.items[i])]
  ELSE <<>>

\* the positions of the enumerated values of k that name image-to-video
C19_Hits(k) ==
  {i \in 1..Len(C19_Enum(k)) : \/ includes(toLowerCase(C19_Enum(k)[i]), "image")
                               \/ includes(toLowerCase(C19_Enum(k)[i]), "i2v")}

C19_Resolved == {fnRet.promptKey, fnRet.imageKey, fnRet.durationKey, fnRet.seedKey}

\* C19: every key of the extra defaults is listed as required, is none of the
\* four resolved fields, and is mapped to the first of its field's own
\* enumerated values that contains "image" or "i2v"; a required field that is
\* not a resolved field has an entry exactly when it has such a value.
C19_ExtraDefaults ==
  C_Returned =>
    /\ \A k \in DOMAIN fnRet.extraDefaults :
         /\ k \in C_Required
         /\ Str(k) \notin C19_Resolved
         /\ C19_Hits(k) # {}
         /\ \E i \in C19_Hits(k) : /\ \A j \in C19_Hits(k) : i <= j
                                   /\ fnRet.extraDefaults[k] = C19_Enum(k)[i]
    /\ \A k \in C_Required :
         Str(k) \notin C19_Resolved /\ C19_Hits(k) # {} => k \in DOMAIN fnRet.extraDefaults

\* a required mode switch next to a required image field that has an enum itself
C19_Witness ==
  /\ C_Returned
  /\ C_Declared = <<"task", "image_mode">>
  /\ C_Required = {"task", "image_mode"}
  /\ fnRet.imageKey = Str("image_mode")
  /\ DOMAIN fnRet.extraDefaults = {"task"}
  /\ fnRet.extraDefaults["task"] = "Image-to-Video"

\* the roles, and the roles the result assigns a field to
C34_Roles == {"promptKey", "imageKey", "durationKey", "seedKey"}

C34_Assigned == {r \in C34_Roles : fnRet[r] # Undef}

\* C34: the fields resolveInputKeys assigns to the prompt, image, duration
\* and seed roles are pairwise different.
C34_RolesDistinct ==
  C_Returned =>
    \A r1, r2 \in C34_Assigned : r1 # r2 => fnRet[r1] # fnRet[r2]

====
